---- MODULE Spec2Model ----
(***************************************************************************)
(* A model of the DevDocs retrieval engine, src/devdocs_mcp_server.py:     *)
(* the memoized catalog of DevDocsClient.get_available_docs under          *)
(* interleaved asyncio tasks (Spec), the ranked entry search               *)
(* search_doc_entries (SpecSearch), the page aggregator                    *)
(* list_all_docset_pages (SpecPages), the text extraction                  *)
(* extract_text_content (SpecExtract), the page info extract_page_info     *)
(* (SpecInfo), the uncached fetches get_doc_index and get_doc_content      *)
(* (SpecFetch), the tool adapter call_tool (SpecTool), the HTTP client of  *)
(* one DevDocsClient under requests and close (SpecClient), the            *)
(* DevDocsClient objects of successive call_tool invocations               *)
(* (SpecSessions), and get_doc_content tool calls as tasks of one event    *)
(* loop thread (SpecLoop).                                                 *)
(*                                                                         *)
(* Python values are modelled as follows.  A str is a sequence of code     *)
(* points (65 is 'A', 97 is 'a', 32 is ' ').  An Optional value is a       *)
(* sequence of length at most one: None is <<>> and a present value x is   *)
(* <<x>>.  A coroutine is cut at its await expressions: one action runs    *)
(* from one await to the next, as the event loop does.                     *)
(***************************************************************************)
EXTENDS Integers, Sequences, FiniteSets, TLC

VARIABLES
    docs_cache,     \* self._docs_cache: None or the memoized catalog
    pc,             \* per task: "idle", or "awaiting" the catalog GET
    catalogGets,    \* GET {base}/docs.json requests issued so far
    trace,          \* the calls' observable events on this instance, in order
    index,          \* the upstream Index of the docset that is searched / listed
    searches,       \* the search_doc_entries calls made so far: query and outcome
    include_sections, \* the argument of the list_all_docset_pages call
    lpc,            \* position of the list_all_docset_pages call
    cursor,         \* number of entries the for loop has finished
    pages,          \* the pages list built so far
    listResult,     \* None while running; the returned pages, or the raised error
    netlog,         \* the requests issued by the list_all_docset_pages call, in order
    xhtml,          \* the html argument of the extract_text_content call
    xenv,           \* None, or what the cleaner module and the pandoc subprocess did
    xresult,        \* None, or the outcome of the extract_text_content call
    fragment,       \* the html argument of the extract_page_info call
    info,           \* None, or the dict extract_page_info returned
    calls,          \* the get_doc_index / get_doc_content calls made, in order
    wire,           \* the GETs those calls issued, in order
    tcall,          \* None, or the call_tool invocation: tool name and arguments
    tresult,        \* None while the invocation runs; then how it ended
    instances,      \* the DevDocsClient objects made: _client and _docs_cache of each
    https,          \* the httpx.AsyncClient objects made: "open" or "closed"
    ops,            \* the operations started on the instances, in order
    epc,            \* per task of the event loop: where its get_doc_content tool call is
    elog            \* the steps the event loop has run, in order

cvars == <<docs_cache, pc, catalogGets, trace>>
svars == <<index, searches>>
pvars == <<include_sections, lpc, cursor, pages, listResult, netlog>>
xvars == <<xhtml, xenv, xresult>>
ivars == <<fragment, info>>
fvars == <<calls, wire>>
tvars == <<tcall, tresult>>
ovars == <<instances, https, ops>>
evars == <<epc, elog>>
nvars == <<xvars, ivars, fvars, tvars, ovars, evars>>
vars == <<docs_cache, pc, catalogGets, trace, index, searches,
          include_sections, lpc, cursor, pages, listResult, netlog,
          xhtml, xenv, xresult, fragment, info, calls, wire, tcall, tresult,
          instances, https, ops, epc, elog>>

----------------------------------------------------------------------------
(* Optional values and sequence helpers *)

None == <<>>

Some(x) == <<x>>

Range(s) == {s[i] : i \in 1..Len(s)}

SeqsUpTo(S, n) == UNION {[1..k -> S] : k \in 0..n}

----------------------------------------------------------------------------
(* Bounds *)

NumTasks == 2

MaxCalls == 3

MaxCatalogLen == 1

----------------------------------------------------------------------------
(* The upstream catalog endpoint, GET {base}/docs.json *)

Tasks == 1..NumTasks

DocSetPool == {[name |-> "CSS", slug |-> "css"]}

Catalogs == SeqsUpTo(DocSetPool, MaxCatalogLen)

\* the body of a response cut short: a strict prefix of a catalog
Partials == UNION {{SubSeq(c, 1, k) : k \in 0..(Len(c) - 1)} : c \in Catalogs}

\* what awaiting client.get, raise_for_status and json() can meet
CatalogResponses ==
    {[kind |-> "transport", body |-> <<>>], [kind |-> "status", body |-> <<>>]}
    \cup {[kind |-> "badjson", body |-> p] : p \in Partials}
    \cup {[kind |-> "ok", body |-> c] : c \in Catalogs}

----------------------------------------------------------------------------
(* DevDocsClient.get_available_docs *)

\* `if self._docs_cache is None`
CacheMiss_falsy(cache) == cache = None \/ cache = Some(<<>>)

CacheMiss(cache) == cache = None

\* lines 52-55 once the awaited GET has resolved with resp: the new cache and
\* the outcome of the call
ResumeAfterGet_memoFail(cache, resp) ==
    IF resp.kind = "ok"
    THEN [cache |-> Some(resp.body), kind |-> "ok", val |-> Some(resp.body)]
    ELSE [cache |-> Some(resp.body), kind |-> "raise", val |-> None]

ResumeAfterGet_partial(cache, resp) ==
    IF resp.kind = "ok"
    THEN [cache |-> Some(resp.body), kind |-> "ok", val |-> Some(resp.body)]
    ELSE [cache |-> IF resp.kind = "badjson" THEN Some(resp.body) ELSE cache,
          kind |-> "raise", val |-> None]

ResumeAfterGet(cache, resp) ==
    IF resp.kind = "ok"
    THEN [cache |-> Some(resp.body), kind |-> "ok", val |-> Some(resp.body)]
    ELSE [cache |-> cache, kind |-> "raise", val |-> None]

\* one observable event of a call: the call starts and finds the catalog ("hit")
\* or issues the GET ("miss"), or its GET resolves with resp and the call
\* returns val ("ok") or raises ("raise"); cache and gets are the memoized
\* catalog and the number of GETs issued after the event
Event(t, ev, val, cache, gets, resp) ==
    [task |-> t, ev |-> ev, val |-> val, cache |-> cache, gets |-> gets, resp |-> resp]

NoResponse == [kind |-> "none", body |-> <<>>]

CallsStarted == Cardinality({i \in 1..Len(trace) : trace[i].ev \in {"hit", "miss"}})

\* a call that finds the catalog memoized returns it without awaiting
GetAvailableDocsHit(t) ==
    /\ pc[t] = "idle"
    /\ CallsStarted < MaxCalls
    /\ ~CacheMiss(docs_cache)
    /\ trace' = Append(trace, Event(t, "hit", docs_cache, docs_cache, catalogGets, NoResponse))
    /\ UNCHANGED <<docs_cache, pc, catalogGets>>
    /\ UNCHANGED <<svars, pvars>>
    /\ UNCHANGED nvars

\* a call that finds no catalog issues the GET and is suspended at the await
GetAvailableDocsMiss(t) ==
    /\ pc[t] = "idle"
    /\ CallsStarted < MaxCalls
    /\ CacheMiss(docs_cache)
    /\ catalogGets' = catalogGets + 1
    /\ pc' = [pc EXCEPT ![t] = "awaiting"]
    /\ trace' = Append(trace, Event(t, "miss", None, docs_cache, catalogGets + 1, NoResponse))
    /\ UNCHANGED docs_cache
    /\ UNCHANGED <<svars, pvars>>
    /\ UNCHANGED nvars

\* the GET resolves and the call runs to its end
GetAvailableDocsResume(t) ==
    /\ pc[t] = "awaiting"
    /\ \E resp \in CatalogResponses :
        LET r == ResumeAfterGet(docs_cache, resp) IN
        /\ docs_cache' = r.cache
        /\ trace' = Append(trace, Event(t, r.kind, r.val, r.cache, catalogGets, resp))
    /\ pc' = [pc EXCEPT ![t] = "idle"]
    /\ UNCHANGED catalogGets
    /\ UNCHANGED <<svars, pvars>>
    /\ UNCHANGED nvars

CatalogInit ==
    /\ docs_cache = None
    /\ pc = [t \in Tasks |-> "idle"]
    /\ catalogGets = 0
    /\ trace = <<>>

----------------------------------------------------------------------------
(* Python str operations, on sequences of code points *)

\* str.lower() of one ASCII code point
Lower_identity(c) == c

Lower(c) == IF c \in 65..90 THEN c + 32 ELSE c

StrLower(s) == [i \in 1..Len(s) |-> Lower(s[i])]

\* `needle in hay`
Contains_prefixOnly(hay, needle) ==
    Len(needle) <= Len(hay) /\ SubSeq(hay, 1, Len(needle)) = needle

Contains(hay, needle) ==
    \E k \in 0..(Len(hay) - Len(needle)) : SubSeq(hay, k + 1, k + Len(needle)) = needle

\* hay.startswith(prefix)
StartsWith(hay, prefix) ==
    Len(prefix) <= Len(hay) /\ SubSeq(hay, 1, Len(prefix)) = prefix

\* a < b on str: the first differing code point decides, a proper prefix is smaller
StrLess(a, b) ==
    \E k \in 1..Len(b) :
        /\ k <= Len(a) + 1
        /\ SubSeq(a, 1, k - 1) = SubSeq(b, 1, k - 1)
        /\ (k = Len(a) + 1 \/ a[k] < b[k])

----------------------------------------------------------------------------
(* Entries and the upstream Index, GET {base}/docs/{slug}/index.json *)

MaxResults == 20

MaxEntries == 2

\* the strings "a", "A", "b", "ab", "aB", "ba", "Ba", "x", "y"
Str_a == <<97>>
Str_A == <<65>>
Str_b == <<98>>
Str_ab == <<97, 98>>
Str_aB == <<97, 66>>
Str_ba == <<98, 97>>
Str_Ba == <<66, 97>>
Str_x == <<120>>
Str_y == <<121>>

\* entry.get("name", "")
EntryName(entry) == IF entry.name = None THEN <<>> ELSE entry.name[1]

\* entry.get('path', '')
EntryPath(entry) == IF entry.path = None THEN <<>> ELSE entry.path[1]

\* index.get("entries", [])
IndexEntries(idx) == IF idx.entries = None THEN <<>> ELSE idx.entries[1]

\* names of the entries searched: one entry without a name, and names that are
\* exact, prefix and inner matches of the queries below, in both letter cases
NamePool ==
    {None, Some(Str_a), Some(Str_A), Some(Str_ab), Some(Str_ba), Some(Str_b)}

SearchEntryPool == {[name |-> n, path |-> Some(Str_x), type |-> "t"] : n \in NamePool}

\* k further entries "Ba", told apart by their paths
Filler(k) ==
    [i \in 1..k |-> [name |-> Some(Str_Ba), path |-> Some(<<47, 48 + i>>), type |-> "t"]]

SearchIndexPool ==
    {[entries |-> None]}
    \cup {[entries |-> Some(Filler(k) \o es)] :
            k \in {0, MaxResults - 1}, es \in SeqsUpTo(SearchEntryPool, MaxEntries)}

QueryPool ==
    {<<>>, Str_a, Str_A, Str_b, Str_ab, Str_aB, Str_x}

----------------------------------------------------------------------------
(* DevDocsClient.search_doc_entries *)

\* lines 71-74: the entries whose lower-cased name contains query_lower
RECURSIVE Matches(_, _)
Matches(entries, query_lower) ==
    IF entries = <<>> THEN <<>>
    ELSE LET rest == Matches(SubSeq(entries, 1, Len(entries) - 1), query_lower)
             entry == entries[Len(entries)]
         IN IF Contains(StrLower(EntryName(entry)), query_lower)
            THEN Append(rest, entry) ELSE rest

\* sort_key: (tier, lower-cased name)
sort_key_nameOnly(entry, query_lower) == <<0, StrLower(EntryName(entry))>>

sort_key(entry, query_lower) ==
    LET name == StrLower(EntryName(entry)) IN
    IF name = query_lower THEN <<0, name>>
    ELSE IF StartsWith(name, query_lower) THEN <<1, name>>
    ELSE <<2, name>>

\* tuple comparison k1 < k2
KeyLess(k1, k2) == k1[1] < k2[1] \/ (k1[1] = k2[1] /\ StrLess(k1[2], k2[2]))

\* one step of the insertion sort: x goes after every element that is not
\* greater than it, so equal keys keep their order
InsertByKey_unstable(s, x, q) ==
    LET before == {i \in 1..Len(s) : KeyLess(sort_key(s[i], q), sort_key(x, q))}
        n == Cardinality(before)
    IN SubSeq(s, 1, n) \o <<x>> \o SubSeq(s, n + 1, Len(s))

InsertByKey(s, x, q) ==
    LET before == {i \in 1..Len(s) : ~KeyLess(sort_key(x, q), sort_key(s[i], q))}
        n == Cardinality(before)
    IN SubSeq(s, 1, n) \o <<x>> \o SubSeq(s, n + 1, Len(s))

\* sorted(matches, key=sort_key): a stable sort
RECURSIVE SortedByKey(_, _)
SortedByKey(s, q) ==
    IF s = <<>> THEN <<>>
    ELSE InsertByKey(SortedByKey(SubSeq(s, 1, Len(s) - 1), q), s[Len(s)], q)

\* [:20]
Truncate(s) == SubSeq(s, 1, IF Len(s) < MaxResults THEN Len(s) ELSE MaxResults)

\* lines 66-86 on a fetched index
RankedSearch_truncateFirst(idx, query) ==
    LET query_lower == StrLower(query) IN
    SortedByKey(Truncate(Matches(IndexEntries(idx), query_lower)), query_lower)

RankedSearch(idx, query) ==
    LET query_lower == StrLower(query) IN
    Truncate(SortedByKey(Matches(IndexEntries(idx), query_lower), query_lower))

\* what awaiting get_doc_index can meet
FetchOutcomes == {"ok", "transport", "status", "badjson"}

\* one call of search_doc_entries(slug, query): the index fetch and the ranking
SearchDocEntries(query, outcome) ==
    /\ searches' =
         IF outcome = "ok"
         THEN Some([query |-> query, kind |-> "ok", result |-> RankedSearch(index, query)])
         ELSE Some([query |-> query, kind |-> "raise", result |-> <<>>])
    /\ UNCHANGED index
    /\ UNCHANGED <<cvars, pvars>>
    /\ UNCHANGED nvars

SearchInit ==
    /\ index \in SearchIndexPool
    /\ searches = None

----------------------------------------------------------------------------
(* Markup fragments and DevDocsClient.extract_page_info *)

\* str.strip(): leading and trailing whitespace removed
Whitespace == {9, 10, 13, 32}

RECURSIVE LStrip(_)
LStrip(s) == IF s # <<>> /\ s[1] \in Whitespace THEN LStrip(Tail(s)) ELSE s

RECURSIVE RStrip(_)
RStrip(s) ==
    IF s # <<>> /\ s[Len(s)] \in Whitespace THEN RStrip(SubSeq(s, 1, Len(s) - 1)) ELSE s

Strip(s) == RStrip(LStrip(s))

\* tag names "h1" .. "h6", "title", "p"
Tag_h1 == <<104, 49>>
Tag_h2 == <<104, 50>>
Tag_h3 == <<104, 51>>
Tag_h4 == <<104, 52>>
Tag_h5 == <<104, 53>>
Tag_h6 == <<104, 54>>
Tag_title == <<116, 105, 116, 108, 101>>
Tag_p == <<112>>

\* one element of a fragment, in document order: its tag name, its class
\* attribute, its text and its id attribute
El(tag, cls, text, id) == [tag |-> tag, class |-> cls, text |-> text, id |-> id]

\* title_selectors, in order of preference
title_selectors_titleFirst ==
    <<[tag |-> Some(Tag_title), class |-> None],
      [tag |-> Some(Tag_h1), class |-> None],
      [tag |-> None, class |-> Some("page-title")],
      [tag |-> None, class |-> Some("doc-title")],
      [tag |-> None, class |-> Some("main-title")]>>

title_selectors ==
    <<[tag |-> Some(Tag_h1), class |-> None],
      [tag |-> Some(Tag_title), class |-> None],
      [tag |-> None, class |-> Some("page-title")],
      [tag |-> None, class |-> Some("doc-title")],
      [tag |-> None, class |-> Some("main-title")]>>

SelectorMatches(selector, elem) ==
    /\ selector.tag # None => elem.tag = selector.tag[1]
    /\ selector.class # None => elem.class = selector.class

\* soup.select_one(selector): the first matching element, or None
select_one(html, selector) ==
    LET hits == {i \in 1..Len(html) : SelectorMatches(selector, html[i])} IN
    IF hits = {} THEN None
    ELSE Some(html[CHOOSE i \in hits : \A j \in hits : i <= j])

\* lines 145-152: the first selector whose first match has text wins
RECURSIVE TitleFrom(_, _)
TitleFrom(html, k) ==
    IF k > Len(title_selectors) THEN None
    ELSE LET title_elem == select_one(html, title_selectors[k]) IN
         IF title_elem # None /\ Strip(title_elem[1].text) # <<>>
         THEN Some(Strip(title_elem[1].text))
         ELSE TitleFrom(html, k + 1)

HeadingTags_h2to4 == {Tag_h2, Tag_h3, Tag_h4}

HeadingTags == {Tag_h2, Tag_h3, Tag_h4, Tag_h5, Tag_h6}

\* lines 155-165: the h2..h6 headings with text, in document order
RECURSIVE SectionsFrom(_)
SectionsFrom(html) ==
    IF html = <<>> THEN <<>>
    ELSE LET rest == SectionsFrom(SubSeq(html, 1, Len(html) - 1))
             heading == html[Len(html)]
             text == Strip(heading.text)
         IN IF heading.tag \in HeadingTags /\ text # <<>>
            THEN Append(rest, [text |-> text,
                               level |-> heading.tag[2] - 48,
                               id |-> IF heading.id = None THEN <<>> ELSE heading.id[1]])
            ELSE rest

extract_page_info(html) == [title |-> TitleFrom(html, 1), sections |-> SectionsFrom(html)]

\* fragments the upstream serves: " A " under an h1 with two sections, one of
\* them blank; a title element only; no element at all
FragmentPool ==
    {<<El(Tag_h1, None, <<32, 65, 32>>, None), El(Tag_h2, None, Str_a, Some(Str_x)),
       El(Tag_h3, None, <<32>>, None)>>,
     <<El(Tag_p, Some("doc-title"), Str_b, None)>>,
     <<>>}

----------------------------------------------------------------------------
(* DevDocsClient.list_all_docset_pages *)

MaxPageEntries == 3

\* entries listed: without a path key, with an empty path, and with paths
PageEntryPool ==
    {[name |-> Some(Str_a), path |-> None, type |-> "t"],
     [name |-> Some(Str_b), path |-> Some(<<>>), type |-> "t"],
     [name |-> Some(Str_a), path |-> Some(Str_x), type |-> "t"],
     [name |-> None, path |-> Some(Str_y), type |-> "u"]}

PageIndexPool ==
    {[entries |-> None]}
    \cup {[entries |-> Some(es)] : es \in SeqsUpTo(PageEntryPool, MaxPageEntries)}

\* what awaiting get_doc_content and extract_page_info can meet: the fetch
\* fails, or it returns a fragment and the derivation returns or raises
ContentOutcomes ==
    {[kind |-> "transport", html |-> <<>>], [kind |-> "status", html |-> <<>>]}
    \cup {[kind |-> k, html |-> f] : k \in {"ok", "parse"}, f \in FragmentPool}

\* lines 187-193
BasicPage(entry) ==
    [name |-> EntryName(entry), path |-> EntryPath(entry), type |-> entry.type,
     title |-> None, sections |-> <<>>, error |-> None]

\* `if include_sections and path`
NeedsFetch_ignoresFlag(incl, entry) == EntryPath(entry) # <<>>

NeedsFetch_ignoresPath(incl, entry) == incl

NeedsFetch(incl, entry) == incl /\ EntryPath(entry) # <<>>

\* lines 196-204: the inner try.  raised tells whether an exception leaves it
InnerTry_noCatch(entry, outcome) ==
    IF outcome.kind = "ok"
    THEN [raised |-> FALSE,
          page |-> [BasicPage(entry) EXCEPT
                      !.title = extract_page_info(outcome.html).title,
                      !.sections = extract_page_info(outcome.html).sections]]
    ELSE [raised |-> TRUE, page |-> BasicPage(entry)]

InnerTry_keepsTitle(entry, outcome) ==
    IF outcome.kind = "ok"
    THEN [raised |-> FALSE,
          page |-> [BasicPage(entry) EXCEPT
                      !.title = extract_page_info(outcome.html).title,
                      !.sections = extract_page_info(outcome.html).sections]]
    ELSE [raised |-> FALSE,
          page |-> [BasicPage(entry) EXCEPT
                      !.title = extract_page_info(outcome.html).title,
                      !.error = Some(outcome.kind)]]

InnerTry(entry, outcome) ==
    IF outcome.kind = "ok"
    THEN [raised |-> FALSE,
          page |-> [BasicPage(entry) EXCEPT
                      !.title = extract_page_info(outcome.html).title,
                      !.sections = extract_page_info(outcome.html).sections]]
    ELSE [raised |-> FALSE,
          page |-> [BasicPage(entry) EXCEPT !.error = Some(outcome.kind)]]

\* the for loop from entry k + 1 on, up to its next await or its end: entries
\* that need no fetch are appended as they are
RECURSIVE RunLoop(_, _, _, _)
RunLoop(entries, incl, k, ps) ==
    IF k >= Len(entries) THEN [cursor |-> k, pages |-> ps, awaiting |-> FALSE]
    ELSE IF NeedsFetch(incl, entries[k + 1])
         THEN [cursor |-> k, pages |-> ps, awaiting |-> TRUE]
         ELSE RunLoop(entries, incl, k + 1, Append(ps, BasicPage(entries[k + 1])))

\* a request on the wire: for a content GET, the entry it is for; its outcome
\* is "pending" until the awaited call resolves
Request(kind, path, entry) ==
    [kind |-> kind, path |-> path, entry |-> entry, outcome |-> "pending"]

\* the request last issued has resolved
Resolved_notAwaited(log, outcome) == log

Resolved(log, outcome) == [log EXCEPT ![Len(log)].outcome = outcome]

\* the loop is left at its next await, where the content GET is issued, or at
\* `return pages`
Proceed(r, log) ==
    /\ cursor' = r.cursor
    /\ pages' = r.pages
    /\ IF r.awaiting
       THEN /\ lpc' = "await_content"
            /\ netlog' = Append(log,
                   Request("content", EntryPath(IndexEntries(index)[r.cursor + 1]),
                           r.cursor + 1))
            /\ listResult' = None
       ELSE /\ lpc' = "done"
            /\ netlog' = log
            /\ listResult' = Some([kind |-> "ok", pages |-> r.pages])

\* line 211: the outer except re-raises, and nothing is returned
Fail_returnsEmpty(log) ==
    /\ lpc' = "done"
    /\ listResult' = Some([kind |-> "ok", pages |-> <<>>])
    /\ netlog' = log
    /\ UNCHANGED <<cursor, pages>>

Fail(log) ==
    /\ lpc' = "done"
    /\ listResult' = Some([kind |-> "raise", pages |-> <<>>])
    /\ netlog' = log
    /\ UNCHANGED <<cursor, pages>>

\* the call starts: get_doc_index issues its GET
ListStart ==
    /\ lpc = "start"
    /\ lpc' = "await_index"
    /\ netlog' = Append(netlog, Request("index", <<>>, 0))
    /\ UNCHANGED <<include_sections, cursor, pages, listResult>>
    /\ UNCHANGED <<index, searches, cvars>>
    /\ UNCHANGED nvars

\* the index GET resolves
ListIndexResume ==
    /\ lpc = "await_index"
    /\ \E outcome \in FetchOutcomes :
        IF outcome = "ok"
        THEN Proceed(RunLoop(IndexEntries(index), include_sections, 0, <<>>),
                     Resolved(netlog, outcome))
        ELSE Fail(Resolved(netlog, outcome))
    /\ UNCHANGED include_sections
    /\ UNCHANGED <<index, searches, cvars>>
    /\ UNCHANGED nvars

\* the content GET of entry cursor + 1 resolves and page info is derived
ListContentResume ==
    /\ lpc = "await_content"
    /\ \E outcome \in ContentOutcomes :
        LET entries == IndexEntries(index)
            r == InnerTry(entries[cursor + 1], outcome)
        IN IF r.raised
           THEN Fail(Resolved(netlog, outcome.kind))
           ELSE Proceed(RunLoop(entries, include_sections, cursor + 1,
                                Append(pages, r.page)),
                        Resolved(netlog, outcome.kind))
    /\ UNCHANGED include_sections
    /\ UNCHANGED <<index, searches, cvars>>
    /\ UNCHANGED nvars

PagesInit ==
    /\ include_sections \in BOOLEAN
    /\ lpc = "start"
    /\ cursor = 0
    /\ pages = <<>>
    /\ listResult = None
    /\ netlog = <<>>

----------------------------------------------------------------------------
(* DevDocsClient.extract_text_content *)

\* tag names "script", "style"
Tag_script == <<115, 99, 114, 105, 112, 116>>
Tag_style == <<115, 116, 121, 108, 101>>

\* the Markdown "# T", a blank " ", and the texts "Hi", " a  b ", "a", newline, "b"
Str_md == <<35, 32, 84>>
Str_blank == <<32>>
Str_Hi == <<72, 105>>
Str_spaced == <<32, 97, 32, 32, 98, 32>>
Str_lines == <<97, 10, 32, 98>>

\* the text "a", tab, tab, "b"
Str_tabbed == <<97, 9, 9, 98>>

\* what a converter can write
OutputPool == {<<>>, Str_blank, Str_md}

\* lines 100-103: scripts.clean_docs cannot be imported, or DocsCleaner raises,
\* or clean_html returns its Markdown
CleanerOutcomes ==
    {[kind |-> "missing", out |-> <<>>], [kind |-> "raises", out |-> <<>>]}
    \cup {[kind |-> "returns", out |-> o] : o \in OutputPool}

\* lines 112-119: subprocess.run finds no pandoc (FileNotFoundError), may not
\* execute it (PermissionError), fails otherwise in the OS (OSError), sees it
\* exit non-zero (CalledProcessError) or outlive the timeout (TimeoutExpired),
\* or sees it exit with status 0 and stdout out
PandocOutcomes ==
    {[kind |-> k, out |-> <<>>] :
        k \in {"notfound", "permission", "oserror", "nonzero", "timeout"}}
    \cup {[kind |-> "exits", out |-> o] : o \in OutputPool}

\* lines 98-107: "return" the Markdown, "raise", or go on to the "next" strategy;
\* only ImportError is caught
CleanerStage_fallsThrough(cleaner) ==
    IF cleaner.kind = "raises" THEN "raise" ELSE "next"

CleanerStage(cleaner) ==
    IF cleaner.kind = "missing" THEN "next"
    ELSE IF cleaner.kind = "raises" THEN "raise"
    ELSE IF cleaner.out # <<>> /\ Strip(cleaner.out) # <<>> THEN "return"
    ELSE "next"

\* line 122: the exceptions the second try catches
PandocCaught_noTimeout == {"nonzero", "notfound"}

PandocCaught == {"nonzero", "notfound", "timeout"}

\* lines 110-123
PandocStage(pandoc) ==
    IF pandoc.kind = "exits"
    THEN (IF pandoc.out # <<>> THEN "return" ELSE "next")
    ELSE IF pandoc.kind \in PandocCaught THEN "next"
    ELSE "raise"

\* s cut at every code point of seps
RECURSIVE SplitAt(_, _)
SplitAt(s, seps) ==
    LET cuts == {i \in 1..Len(s) : s[i] \in seps} IN
    IF cuts = {} THEN <<s>>
    ELSE LET i == CHOOSE x \in cuts : \A y \in cuts : x <= y
         IN <<SubSeq(s, 1, i - 1)>> \o SplitAt(SubSeq(s, i + 1, Len(s)), seps)

\* line.split("  "): cut at every pair of spaces, from the left
RECURSIVE SplitDoubleSpace(_)
SplitDoubleSpace(s) ==
    LET cuts == {i \in 1..(Len(s) - 1) : s[i] = 32 /\ s[i + 1] = 32} IN
    IF cuts = {} THEN <<s>>
    ELSE LET i == CHOOSE x \in cuts : \A y \in cuts : x <= y
         IN <<SubSeq(s, 1, i - 1)>> \o SplitDoubleSpace(SubSeq(s, i + 2, Len(s)))

\* soup.get_text() once the script and style elements are decomposed
RECURSIVE VisibleText(_)
VisibleText(html) ==
    IF html = <<>> THEN <<>>
    ELSE (IF html[1].tag \in {Tag_script, Tag_style} THEN <<>> ELSE html[1].text)
         \o VisibleText(Tail(html))

\* the stripped phrases of the stripped lines, in order
RECURSIVE Chunks(_)
Chunks(lines) ==
    IF lines = <<>> THEN <<>>
    ELSE LET phrases == SplitDoubleSpace(Strip(lines[1])) IN
         [i \in 1..Len(phrases) |-> Strip(phrases[i])] \o Chunks(Tail(lines))

\* ' '.join(chunk for chunk in chunks if chunk)
RECURSIVE JoinNonEmpty(_)
JoinNonEmpty(chunks) ==
    IF chunks = <<>> THEN <<>>
    ELSE LET rest == JoinNonEmpty(Tail(chunks)) IN
         IF chunks[1] = <<>> THEN rest
         ELSE IF rest = <<>> THEN chunks[1]
         ELSE chunks[1] \o <<32>> \o rest

\* lines 126-138
NaiveText(html) == JoinNonEmpty(Chunks(SplitAt(VisibleText(html), {10, 13})))

Outcome(kind, text, ran) == [kind |-> kind, text |-> text, ran |-> ran]

\* the whole function: its outcome and the strategies it ran, in order
extract_text_content(html, cleaner, pandoc) ==
    IF CleanerStage(cleaner) = "return" THEN Outcome("return", cleaner.out, <<"cleaner">>)
    ELSE IF CleanerStage(cleaner) = "raise" THEN Outcome("raise", <<>>, <<"cleaner">>)
    ELSE IF PandocStage(pandoc) = "return"
         THEN Outcome("return", pandoc.out, <<"cleaner", "pandoc">>)
    ELSE IF PandocStage(pandoc) = "raise"
         THEN Outcome("raise", <<>>, <<"cleaner", "pandoc">>)
    ELSE Outcome("return", NaiveText(html), <<"cleaner", "pandoc", "naive">>)

\* fragments given to extract_text_content: a script, a style and a paragraph;
\* text with a run of spaces; text over two lines; a script alone; text with a
\* run of tabs; nothing
TextFragmentPool ==
    {<<El(Tag_script, None, Str_x, None), El(Tag_style, None, Str_y, None),
       El(Tag_p, None, Str_Hi, None)>>,
     <<El(Tag_p, None, Str_spaced, None)>>,
     <<El(Tag_p, None, Str_lines, None), El(Tag_h2, None, Str_b, None)>>,
     <<El(Tag_script, None, Str_x, None)>>,
     <<El(Tag_p, None, Str_tabbed, None)>>,
     <<>>}

\* one call of extract_text_content(html) in an environment
ExtractTextContent(cleaner, pandoc) ==
    /\ xresult = None
    /\ xenv' = Some([cleaner |-> cleaner, pandoc |-> pandoc])
    /\ xresult' = Some(extract_text_content(xhtml, cleaner, pandoc))
    /\ UNCHANGED xhtml
    /\ UNCHANGED <<cvars, svars, pvars, ivars, fvars, tvars, ovars, evars>>

ExtractIdle == xhtml = <<>> /\ xenv = None /\ xresult = None

----------------------------------------------------------------------------
(* One call of DevDocsClient.extract_page_info *)

MaxElements == 3

\* the texts "T", " ", " a "
Str_T == <<84>>
Str_padded == <<32, 97, 32>>

\* elements of the fragments: headings of the levels 1, 2, 3 and 6, a title
\* element and an element of class doc-title, with or without text
InfoElementPool ==
    {El(t, None, x, None) : t \in {Tag_h1, Tag_h2, Tag_title}, x \in {Str_T, Str_blank, Str_padded}}
    \cup {El(Tag_h3, None, Str_T, Some(Str_x)), El(Tag_h6, None, Str_padded, None),
          El(Tag_p, Some("doc-title"), Str_b, None), El(Tag_p, None, Str_a, None)}

InfoFragmentPool == SeqsUpTo(InfoElementPool, MaxElements)

ExtractPageInfo ==
    /\ info = None
    /\ info' = Some(extract_page_info(fragment))
    /\ UNCHANGED fragment
    /\ UNCHANGED <<cvars, svars, pvars, xvars, fvars, tvars, ovars, evars>>

InfoIdle == fragment = <<>> /\ info = None

----------------------------------------------------------------------------
(* DevDocsClient.get_doc_index and DevDocsClient.get_doc_content *)

MaxFetchCalls == 3

SlugPool == {Str_a, Str_b}

\* f"{self.base_url}/docs/{slug}/index.json"
IndexUrl(slug) == [endpoint |-> "index.json", slug |-> slug, path |-> <<>>]

\* f"{self.base_url}/docs/{slug}/{path}.html"
ContentUrl(slug, path) == [endpoint |-> ".html", slug |-> slug, path |-> path]

\* the two functions with their arguments, and the URL each requests
FetchCallPool ==
    {[fn |-> "get_doc_index", slug |-> s, path |-> <<>>] : s \in SlugPool}
    \cup {[fn |-> "get_doc_content", slug |-> s, path |-> Str_x] : s \in SlugPool}

UrlOf(c) == IF c.fn = "get_doc_index" THEN IndexUrl(c.slug) ELSE ContentUrl(c.slug, c.path)

\* what the awaited GET can resolve to: a transport error, a non-success
\* status, and for a success the parsed JSON body, or a body that does not
\* parse, or the text of the body
FetchResponses(fn) ==
    {[kind |-> "transport", body |-> <<>>], [kind |-> "status", body |-> <<>>]}
    \cup (IF fn = "get_doc_index"
          THEN {[kind |-> "badjson", body |-> <<>>],
                [kind |-> "ok", body |-> <<[entries |-> None]>>]}
          ELSE {[kind |-> "ok", body |-> <<Str_Hi>>]})

\* lines 59-61 and 92-94 once the GET has resolved: the call returns the body
\* or raises; again tells whether it issues another GET
AfterGet_retries(resp) ==
    IF resp.kind = "ok" THEN [state |-> "returned", val |-> resp.body, again |-> FALSE]
    ELSE [state |-> "awaiting", val |-> None, again |-> TRUE]

AfterGet(resp) ==
    IF resp.kind = "ok" THEN [state |-> "returned", val |-> resp.body, again |-> FALSE]
    ELSE [state |-> "raised", val |-> None, again |-> FALSE]

\* the call starts: it builds the URL and issues the GET, whatever was
\* fetched before
FetchStart(c) ==
    /\ Len(calls) < MaxFetchCalls
    /\ calls' = Append(calls, [fn |-> c.fn, slug |-> c.slug, path |-> c.path,
                               state |-> "awaiting", val |-> None])
    /\ wire' = Append(wire, [url |-> UrlOf(c), call |-> Len(calls) + 1])
    /\ UNCHANGED <<cvars, svars, pvars, xvars, ivars, tvars, ovars, evars>>

\* the GET of call k resolves
FetchResume(k) ==
    /\ k \in 1..Len(calls)
    /\ calls[k].state = "awaiting"
    /\ \E resp \in FetchResponses(calls[k].fn) :
        LET r == AfterGet(resp) IN
        /\ calls' = [calls EXCEPT ![k].state = r.state, ![k].val = r.val]
        /\ wire' = IF r.again THEN Append(wire, [url |-> UrlOf(calls[k]), call |-> k])
                   ELSE wire
    /\ UNCHANGED <<cvars, svars, pvars, xvars, ivars, tvars, ovars, evars>>

FetchIdle == calls = <<>> /\ wire = <<>>

ToolIdle == tcall = None /\ tresult = None

----------------------------------------------------------------------------
(* call_tool: the four tools on a DevDocsClient made for the invocation *)

\* a str argument of a tool: absent, empty, or given
StrArgs(given) == {None, Some(<<>>), Some(given)}

Arguments(slug, query, path, format, incl) ==
    [slug |-> slug, query |-> query, path |-> path, format |-> format,
     include_sections |-> incl]

\* the invocations: the four tools with their arguments, and a name that is
\* no tool
ToolCallPool ==
    {[name |-> n, arguments |-> Arguments(None, None, None, None, None)] :
        n \in {"list_docs", "no_such_tool"}}
    \cup {[name |-> "search_docs", arguments |-> Arguments(s, q, None, None, None)] :
            s \in StrArgs(Str_a), q \in StrArgs(Str_a) \cup {Some(Str_x)}}
    \cup {[name |-> "get_doc_content", arguments |-> Arguments(s, None, p, f, None)] :
            s \in StrArgs(Str_a), p \in StrArgs(Str_x),
            f \in {None, Some("html"), Some("text"), Some("raw")}}
    \cup {[name |-> "list_docset_pages", arguments |-> Arguments(s, None, None, None, i)] :
            s \in StrArgs(Str_a), i \in {None, Some(TRUE), Some(FALSE)}}

\* arguments.get(key) and arguments.get(key, default)
Get(arg, default) == IF arg = None THEN default ELSE arg[1]

\* `not x` for an argument that is None or a str
Not(arg) == arg = None \/ arg[1] = <<>>

\* the text of a result: the fixed words it starts with and what follows them
Text(head, detail) == [head |-> head, detail |-> detail]

ToolReturn(text) == Some([kind |-> "return", text |-> text])

ToolRaise == Some([kind |-> "raise", text |-> Text("", <<>>)])

\* lines 329, 356, 375: the checks of the required arguments, and the error
\* each tool returns
MissingRequired_isNone(c) ==
    \/ c.name = "search_docs" /\ (c.arguments.slug = None \/ c.arguments.query = None)
    \/ c.name = "get_doc_content" /\ (c.arguments.slug = None \/ c.arguments.path = None)
    \/ c.name = "list_docset_pages" /\ c.arguments.slug = None

MissingRequired_slugOnly(c) ==
    c.name \in {"search_docs", "get_doc_content", "list_docset_pages"}
    /\ Not(c.arguments.slug)

MissingRequired(c) ==
    \/ c.name = "search_docs" /\ (Not(c.arguments.slug) \/ Not(c.arguments.query))
    \/ c.name = "get_doc_content" /\ (Not(c.arguments.slug) \/ Not(c.arguments.path))
    \/ c.name = "list_docset_pages" /\ Not(c.arguments.slug)

RequiredText(name) ==
    IF name = "search_docs" THEN Text("Error: Both 'slug' and 'query' are required", <<>>)
    ELSE IF name = "get_doc_content" THEN Text("Error: Both 'slug' and 'path' are required", <<>>)
    ELSE Text("Error: 'slug' parameter is required", <<>>)

ToolNames == {"list_docs", "search_docs", "get_doc_content", "list_docset_pages"}

\* the words each tool's `except Exception` starts its text with
ErrorHead(name) ==
    IF name = "list_docs" THEN "Error listing docs: "
    ELSE IF name = "search_docs" THEN "Error searching "
    ELSE IF name = "get_doc_content" THEN "Error getting content for "
    ELSE "Error listing pages for "

\* the try of a tool: r is what its body came to, a text to return or an
\* exception e, and the except clause returns the error text with str(e)
Try_noCatch(name, r) ==
    IF r.kind = "raise" THEN ToolRaise ELSE ToolReturn(r.text)

Try(name, r) ==
    IF r.kind = "raise" THEN ToolReturn(Text(ErrorHead(name), r.text.detail))
    ELSE ToolReturn(r.text)

Body(kind, head, detail) == [kind |-> kind, text |-> Text(head, detail)]

\* the GET a tool's first await issues
FirstRequest(c) ==
    IF c.name = "list_docs" THEN Request("catalog", <<>>, 0)
    ELSE IF c.name = "get_doc_content" THEN Request("content", Get(c.arguments.path, <<>>), 0)
    ELSE Request("index", <<>>, 0)

\* call_tool(name, arguments) up to its first await: an unknown tool and a
\* missing argument return at once
ToolCall(c) ==
    /\ tcall = None
    /\ tcall' = Some(c)
    /\ IF c.name \notin ToolNames
       THEN /\ tresult' = ToolReturn(Text("Unknown tool: ", <<c.name>>))
            /\ UNCHANGED pvars
       ELSE IF MissingRequired(c)
       THEN /\ tresult' = ToolReturn(RequiredText(c.name))
            /\ UNCHANGED pvars
       ELSE /\ tresult' = None
            /\ netlog' = Append(netlog, FirstRequest(c))
            /\ include_sections' = Get(c.arguments.include_sections, TRUE)
            /\ lpc' = IF c.name = "list_docset_pages" THEN "await_index" ELSE lpc
            /\ UNCHANGED <<cursor, pages, listResult>>
    /\ UNCHANGED <<cvars, svars, xvars, ivars, fvars, ovars, evars>>

Awaiting(name) == tcall # None /\ tcall[1].name = name /\ tresult = None

\* list_docs: the catalog GET of the new client resolves
ToolListDocsResume ==
    /\ Awaiting("list_docs")
    /\ \E resp \in CatalogResponses :
        LET r == ResumeAfterGet(None, resp) IN
        /\ tresult' = Try("list_docs",
                          IF r.kind = "ok"
                          THEN Body("return", "Available Documentation Sets:", r.val[1])
                          ELSE Body("raise", "", <<resp.kind>>))
        /\ netlog' = Resolved(netlog, resp.kind)
    /\ UNCHANGED <<include_sections, lpc, cursor, pages, listResult>>
    /\ UNCHANGED <<tcall, cvars, svars, xvars, ivars, fvars, ovars, evars>>

\* search_docs: the index GET resolves
ToolSearchResume ==
    /\ Awaiting("search_docs")
    /\ \E outcome \in FetchOutcomes :
        LET matches == RankedSearch(index, tcall[1].arguments.query[1]) IN
        /\ tresult' = Try("search_docs",
                          IF outcome # "ok" THEN Body("raise", "", <<outcome>>)
                          ELSE IF matches = <<>> THEN Body("return", "No matches found for ", <<>>)
                          ELSE Body("return", "Search results for ", matches))
        /\ netlog' = Resolved(netlog, outcome)
    /\ UNCHANGED <<include_sections, lpc, cursor, pages, listResult>>
    /\ UNCHANGED <<tcall, cvars, svars, xvars, ivars, fvars, ovars, evars>>

\* `if format_type == "html"`
FormatIsHtml_raw(format_type) == format_type = "raw"

FormatIsHtml(format_type) == format_type = "html"

\* what awaiting get_doc_content can meet in get_doc_content (the tool)
PageResponses ==
    {[kind |-> "transport", html |-> <<>>], [kind |-> "status", html |-> <<>>]}
    \cup {[kind |-> "ok", html |-> f] : f \in TextFragmentPool}

\* get_doc_content: the content GET resolves; the fragment is returned as it
\* is, or extract_text_content runs on it
ToolContentResume ==
    /\ Awaiting("get_doc_content")
    /\ \E resp \in PageResponses :
        /\ netlog' = Resolved(netlog, resp.kind)
        /\ xhtml' = resp.html
        /\ IF resp.kind # "ok"
           THEN /\ tresult' = Try("get_doc_content", Body("raise", "", <<resp.kind>>))
                /\ UNCHANGED <<xenv, xresult>>
           ELSE IF FormatIsHtml(Get(tcall[1].arguments.format, "text"))
           THEN /\ tresult' = Try("get_doc_content", Body("return", "", resp.html))
                /\ UNCHANGED <<xenv, xresult>>
           ELSE \E cleaner \in CleanerOutcomes, pandoc \in PandocOutcomes :
                LET x == extract_text_content(resp.html, cleaner, pandoc) IN
                /\ xenv' = Some([cleaner |-> cleaner, pandoc |-> pandoc])
                /\ xresult' = Some(x)
                /\ tresult' = Try("get_doc_content",
                                  IF x.kind = "raise" THEN Body("raise", "", <<"extraction">>)
                                  ELSE Body("return", "", x.text))
    /\ UNCHANGED <<include_sections, lpc, cursor, pages, listResult>>
    /\ UNCHANGED <<tcall, cvars, svars, ivars, fvars, ovars, evars>>

\* lines 378-417 once list_all_docset_pages is left: nothing while it awaits,
\* else the listing, or the error text
AfterList(res) ==
    IF res = None THEN None
    ELSE Try("list_docset_pages",
             IF res[1].kind = "raise" THEN Body("raise", "", <<"index">>)
             ELSE IF res[1].pages = <<>> THEN Body("return", "No pages found for docset ", <<>>)
             ELSE Body("return", "Pages in ", res[1].pages))

\* list_docset_pages: the index GET resolves
ToolPagesIndexResume ==
    /\ Awaiting("list_docset_pages")
    /\ lpc = "await_index"
    /\ \E outcome \in FetchOutcomes :
        IF outcome = "ok"
        THEN Proceed(RunLoop(IndexEntries(index), include_sections, 0, <<>>),
                     Resolved(netlog, outcome))
        ELSE Fail(Resolved(netlog, outcome))
    /\ tresult' = AfterList(listResult')
    /\ UNCHANGED include_sections
    /\ UNCHANGED <<tcall, cvars, svars, xvars, ivars, fvars, ovars, evars>>

\* list_docset_pages: the content GET of entry cursor + 1 resolves
ToolPagesContentResume ==
    /\ Awaiting("list_docset_pages")
    /\ lpc = "await_content"
    /\ \E outcome \in ContentOutcomes :
        LET entries == IndexEntries(index)
            r == InnerTry(entries[cursor + 1], outcome)
        IN IF r.raised
           THEN Fail(Resolved(netlog, outcome.kind))
           ELSE Proceed(RunLoop(entries, include_sections, cursor + 1,
                                Append(pages, r.page)),
                        Resolved(netlog, outcome.kind))
    /\ tresult' = AfterList(listResult')
    /\ UNCHANGED include_sections
    /\ UNCHANGED <<tcall, cvars, svars, xvars, ivars, fvars, ovars, evars>>

----------------------------------------------------------------------------
(* DevDocsClient objects and their HTTP clients *)

MaxClientOps == 4

MaxInvocations == 3

\* lines 37-40: a new DevDocsClient has no HTTP client and no catalog
NewInstance == [client |-> None, docs_cache |-> None]

\* `self._client is None or self._client.is_closed`
Stale(inst, hs) == inst.client = None \/ hs[inst.client[1]] = "closed"

\* the client property, lines 42-47: the instance afterwards, the HTTP clients
\* afterwards, and the client h it returns
ClientProperty(inst, hs) ==
    IF Stale(inst, hs)
    THEN [inst |-> [inst EXCEPT !.client = Some(Len(hs) + 1)],
          https |-> Append(hs, "open"), h |-> Len(hs) + 1]
    ELSE [inst |-> inst, https |-> hs, h |-> inst.client[1]]

\* an operation: who runs it, what it is, the instance and the HTTP client it
\* works on (0 for none), whether it is "awaiting" or "done", the catalog cell
\* it found and whether it issued a GET
Op(task, kind, inst, http, state, found, get) ==
    [task |-> task, kind |-> kind, inst |-> inst, http |-> http, state |-> state,
     found |-> found, get |-> get]

Busy(t) == \E k \in 1..Len(ops) : ops[k].task = t /\ ops[k].state = "awaiting"

\* a task calls one of the fetching methods: self.client is evaluated and the
\* GET is issued on the HTTP client it returns
ClientRequest(t) ==
    /\ ~Busy(t)
    /\ Len(ops) < MaxClientOps
    /\ LET r == ClientProperty(instances[1], https) IN
        /\ instances' = [instances EXCEPT ![1] = r.inst]
        /\ https' = r.https
        /\ ops' = Append(ops, Op(t, "get", 1, r.h, "awaiting", None, TRUE))
    /\ UNCHANGED <<cvars, svars, pvars, xvars, ivars, fvars, tvars, evars>>

\* the GET of operation k resolves
ClientRequestResume(k) ==
    /\ k \in 1..Len(ops)
    /\ ops[k].kind = "get" /\ ops[k].state = "awaiting"
    /\ ops' = [ops EXCEPT ![k].state = "done"]
    /\ UNCHANGED <<instances, https>>
    /\ UNCHANGED <<cvars, svars, pvars, xvars, ivars, fvars, tvars, evars>>

\* close(), lines 213-216: nothing to do without an open client; else aclose()
\* marks the HTTP client closed and is awaited
ClientClose(t) ==
    /\ ~Busy(t)
    /\ Len(ops) < MaxClientOps
    /\ IF ~Stale(instances[1], https)
       THEN /\ https' = [https EXCEPT ![instances[1].client[1]] = "closed"]
            /\ ops' = Append(ops, Op(t, "close", 1, instances[1].client[1], "awaiting",
                                     None, FALSE))
       ELSE /\ https' = https
            /\ ops' = Append(ops, Op(t, "close", 1, 0, "done", None, FALSE))
    /\ UNCHANGED instances
    /\ UNCHANGED <<cvars, svars, pvars, xvars, ivars, fvars, tvars, evars>>

\* line 217, once aclose() has returned: self._client = None
ClientCloseResume(k) ==
    /\ k \in 1..Len(ops)
    /\ ops[k].kind = "close" /\ ops[k].state = "awaiting"
    /\ instances' = [instances EXCEPT ![1].client = None]
    /\ ops' = [ops EXCEPT ![k].state = "done"]
    /\ UNCHANGED https
    /\ UNCHANGED <<cvars, svars, pvars, xvars, ivars, fvars, tvars, evars>>

\* line 305: the DevDocsClient an invocation of call_tool works on is a new one
InstanceFor_shared(insts) == 1

InstanceFor(insts) == Len(insts) + 1

\* call_tool("list_docs", ...) up to its first await, lines 305-309: on its
\* DevDocsClient, get_available_docs issues the catalog GET unless the catalog
\* is memoized
InvokeListDocs ==
    /\ Len(ops) < MaxInvocations
    /\ LET i == InstanceFor(instances)
           insts == IF i > Len(instances) THEN Append(instances, NewInstance) ELSE instances
           r == ClientProperty(insts[i], https)
       IN IF CacheMiss(insts[i].docs_cache)
          THEN /\ instances' = [insts EXCEPT ![i] = r.inst]
               /\ https' = r.https
               /\ ops' = Append(ops, Op(Len(ops) + 1, "list_docs", i, r.h, "awaiting",
                                        insts[i].docs_cache, TRUE))
          ELSE /\ instances' = insts
               /\ https' = https
               /\ ops' = Append(ops, Op(Len(ops) + 1, "list_docs", i, 0, "done",
                                        insts[i].docs_cache, FALSE))
    /\ UNCHANGED <<cvars, svars, pvars, xvars, ivars, fvars, tvars, evars>>

\* call_tool with a name that is no tool, lines 305 and 419-420: the
\* DevDocsClient is made and nothing is requested
InvokeUnknown ==
    /\ Len(ops) < MaxInvocations
    /\ LET i == InstanceFor(instances)
           insts == IF i > Len(instances) THEN Append(instances, NewInstance) ELSE instances
       IN /\ instances' = insts
          /\ ops' = Append(ops, Op(Len(ops) + 1, "no_such_tool", i, 0, "done",
                                   insts[i].docs_cache, FALSE))
    /\ UNCHANGED https
    /\ UNCHANGED <<cvars, svars, pvars, xvars, ivars, fvars, tvars, evars>>

\* the catalog GET of invocation k resolves, lines 52-55 and 311-323: the
\* invocation returns its text; it does not close its DevDocsClient
InvokeResume(k) ==
    /\ k \in 1..Len(ops)
    /\ ops[k].kind = "list_docs" /\ ops[k].state = "awaiting"
    /\ \E resp \in CatalogResponses :
        LET r == ResumeAfterGet(instances[ops[k].inst].docs_cache, resp) IN
        instances' = [instances EXCEPT ![ops[k].inst].docs_cache = r.cache]
    /\ ops' = [ops EXCEPT ![k].state = "done"]
    /\ UNCHANGED https
    /\ UNCHANGED <<cvars, svars, pvars, xvars, ivars, fvars, tvars, evars>>

ObjectsIdle == instances = <<>> /\ https = <<>> /\ ops = <<>>

LoopIdle == epc = <<>> /\ elog = <<>>

----------------------------------------------------------------------------
(* get_doc_content tool calls as tasks of one event loop thread *)

\* a task: where its call is, what has arrived for its GET, how it ended
LoopTask(at, arrived, out) == [at |-> at, arrived |-> arrived, out |-> out]

\* line 112: subprocess.run does not await; the thread that runs the event
\* loop stays inside it until the child has exited or the timeout has passed,
\* so the loop runs no callback while a task is there
LoopFree == \A t \in DOMAIN epc : epc[t].at # "pandoc"

\* lines 302-360 and 88-90: the call runs to the await of the content GET
LoopToolStart(t) ==
    /\ LoopFree
    /\ epc[t].at = "idle"
    /\ epc' = [epc EXCEPT ![t].at = "get"]
    /\ elog' = Append(elog, t)
    /\ UNCHANGED <<cvars, svars, pvars, xvars, ivars, fvars, tvars, ovars>>

\* line 90: the response to the GET of task t reaches the process, or the
\* request fails; the operating system takes it whatever the thread is doing
LoopResponse(t) ==
    /\ epc[t].at = "get" /\ epc[t].arrived = "nothing"
    /\ \E r \in {"response", "failure"} : epc' = [epc EXCEPT ![t].arrived = r]
    /\ UNCHANGED elog
    /\ UNCHANGED <<cvars, svars, pvars, xvars, ivars, fvars, tvars, ovars>>

\* what the spawn of the child does at once, line 112: no pandoc, no right to
\* execute it, another failure of the OS, or a child that now runs
SpawnOutcomes == {"notfound", "permission", "oserror", "running"}

\* lines 91-94, 360-369 and 98-112: the loop resumes task t with what arrived;
\* a failed GET ends the call with an error text; otherwise
\* extract_text_content runs the cleaner and, when that gives nothing, calls
\* subprocess.run, which either fails at the spawn or leaves the thread waiting
\* for the child
LoopContentResume(t) ==
    /\ LoopFree
    /\ epc[t].at = "get" /\ epc[t].arrived # "nothing"
    /\ \/ /\ epc[t].arrived = "failure"
          /\ epc' = [epc EXCEPT ![t] = LoopTask("done", "failure", "error")]
       \/ /\ epc[t].arrived = "response"
          /\ \E cleaner \in CleanerOutcomes, spawn \in SpawnOutcomes :
              epc' = [epc EXCEPT ![t] =
                  IF CleanerStage(cleaner) = "return"
                  THEN LoopTask("done", "response", "cleaner")
                  ELSE IF CleanerStage(cleaner) = "raise"
                  THEN LoopTask("done", "response", "error")
                  ELSE IF spawn = "running"
                  THEN LoopTask("pandoc", "response", "nothing")
                  ELSE IF PandocStage([kind |-> spawn, out |-> <<>>]) = "next"
                  THEN LoopTask("done", "response", "naive")
                  ELSE LoopTask("done", "response", "error")]
    /\ elog' = Append(elog, t)
    /\ UNCHANGED <<cvars, svars, pvars, xvars, ivars, fvars, tvars, ovars>>

\* what subprocess.run sees of a child that runs, lines 112-119
ChildOutcomes == {p \in PandocOutcomes : p.kind \in {"exits", "nonzero", "timeout"}}

\* lines 112-138 and 365-369: the child of task t exits or outlives the
\* timeout, subprocess.run returns or raises in the same step of the thread,
\* and the call ends
LoopPandocExit(t) ==
    /\ epc[t].at = "pandoc"
    /\ \E pandoc \in ChildOutcomes :
        epc' = [epc EXCEPT ![t] =
            IF PandocStage(pandoc) = "return" THEN LoopTask("done", "response", "pandoc")
            ELSE IF PandocStage(pandoc) = "next" THEN LoopTask("done", "response", "naive")
            ELSE LoopTask("done", "response", "error")]
    /\ UNCHANGED elog
    /\ UNCHANGED <<cvars, svars, pvars, xvars, ivars, fvars, tvars, ovars>>

\* the steps the event loop can run for task t
LoopStep(t) == LoopToolStart(t) \/ LoopContentResume(t)

----------------------------------------------------------------------------
(* Specifications *)

\* interleaved get_available_docs calls on one DevDocsClient
Init ==
    /\ CatalogInit
    /\ ExtractIdle
    /\ FetchIdle
    /\ ToolIdle
    /\ ObjectsIdle
    /\ LoopIdle
    /\ InfoIdle
    /\ index = [entries |-> None]
    /\ searches = None
    /\ include_sections = TRUE
    /\ lpc = "start"
    /\ cursor = 0
    /\ pages = <<>>
    /\ listResult = None
    /\ netlog = <<>>

Next ==
    \E t \in Tasks :
        \/ GetAvailableDocsHit(t)
        \/ GetAvailableDocsMiss(t)
        \/ GetAvailableDocsResume(t)

Spec == Init /\ [][Next]_vars

\* search_doc_entries calls against one upstream Index
InitSearch ==
    /\ CatalogInit
    /\ ExtractIdle
    /\ FetchIdle
    /\ ToolIdle
    /\ ObjectsIdle
    /\ LoopIdle
    /\ InfoIdle
    /\ SearchInit
    /\ include_sections = TRUE
    /\ lpc = "start"
    /\ cursor = 0
    /\ pages = <<>>
    /\ listResult = None
    /\ netlog = <<>>

NextSearch == \E query \in QueryPool, outcome \in FetchOutcomes : SearchDocEntries(query, outcome)

SpecSearch == InitSearch /\ [][NextSearch]_vars

\* one list_all_docset_pages call against one upstream Index
InitPages ==
    /\ CatalogInit
    /\ ExtractIdle
    /\ FetchIdle
    /\ ToolIdle
    /\ ObjectsIdle
    /\ LoopIdle
    /\ InfoIdle
    /\ index \in PageIndexPool
    /\ searches = None
    /\ PagesInit

NextPages == ListStart \/ ListIndexResume \/ ListContentResume

SpecPages == InitPages /\ [][NextPages]_vars

PagesIdle ==
    /\ include_sections = TRUE
    /\ lpc = "start"
    /\ cursor = 0
    /\ pages = <<>>
    /\ listResult = None
    /\ netlog = <<>>

SearchIdle == index = [entries |-> None] /\ searches = None

\* one extract_text_content call on one fragment
InitExtract ==
    /\ CatalogInit
    /\ SearchIdle
    /\ PagesIdle
    /\ InfoIdle
    /\ FetchIdle
    /\ ToolIdle
    /\ ObjectsIdle
    /\ LoopIdle
    /\ xhtml \in TextFragmentPool
    /\ xenv = None
    /\ xresult = None

NextExtract ==
    \E cleaner \in CleanerOutcomes, pandoc \in PandocOutcomes : ExtractTextContent(cleaner, pandoc)

SpecExtract == InitExtract /\ [][NextExtract]_vars

\* one extract_page_info call on one fragment
InitInfo ==
    /\ CatalogInit
    /\ SearchIdle
    /\ PagesIdle
    /\ ExtractIdle
    /\ FetchIdle
    /\ ToolIdle
    /\ ObjectsIdle
    /\ LoopIdle
    /\ fragment \in InfoFragmentPool
    /\ info = None

NextInfo == ExtractPageInfo

SpecInfo == InitInfo /\ [][NextInfo]_vars

\* get_doc_index and get_doc_content calls on one DevDocsClient
InitFetch ==
    /\ CatalogInit
    /\ SearchIdle
    /\ PagesIdle
    /\ ExtractIdle
    /\ InfoIdle
    /\ FetchIdle
    /\ ToolIdle
    /\ ObjectsIdle
    /\ LoopIdle

NextFetch ==
    \/ \E c \in FetchCallPool : FetchStart(c)
    \/ \E k \in 1..MaxFetchCalls : FetchResume(k)

SpecFetch == InitFetch /\ [][NextFetch]_vars

\* one call_tool invocation against one upstream Index
InitTool ==
    /\ CatalogInit
    /\ PagesIdle
    /\ ExtractIdle
    /\ InfoIdle
    /\ FetchIdle
    /\ ToolIdle
    /\ ObjectsIdle
    /\ LoopIdle
    /\ index \in PageIndexPool
    /\ searches = None

NextTool ==
    \/ \E c \in ToolCallPool : ToolCall(c)
    \/ ToolListDocsResume
    \/ ToolSearchResume
    \/ ToolContentResume
    \/ ToolPagesIndexResume
    \/ ToolPagesContentResume

SpecTool == InitTool /\ [][NextTool]_vars

\* tasks that fetch through, and close, one DevDocsClient
InitClient ==
    /\ CatalogInit
    /\ SearchIdle
    /\ PagesIdle
    /\ ExtractIdle
    /\ InfoIdle
    /\ FetchIdle
    /\ ToolIdle
    /\ LoopIdle
    /\ instances = <<NewInstance>>
    /\ https = <<>>
    /\ ops = <<>>

NextClient ==
    \/ \E t \in Tasks : ClientRequest(t)
    \/ \E k \in 1..MaxClientOps : ClientRequestResume(k)
    \/ \E t \in Tasks : ClientClose(t)
    \/ \E k \in 1..MaxClientOps : ClientCloseResume(k)

SpecClient == InitClient /\ [][NextClient]_vars

\* call_tool invocations served by one process
InitSessions ==
    /\ CatalogInit
    /\ SearchIdle
    /\ PagesIdle
    /\ ExtractIdle
    /\ InfoIdle
    /\ FetchIdle
    /\ ToolIdle
    /\ LoopIdle
    /\ ObjectsIdle

NextSessions ==
    \/ InvokeListDocs
    \/ InvokeUnknown
    \/ \E k \in 1..MaxInvocations : InvokeResume(k)

SpecSessions == InitSessions /\ [][NextSessions]_vars

\* get_doc_content tool calls, one per task, on one event loop
InitLoop ==
    /\ CatalogInit
    /\ SearchIdle
    /\ PagesIdle
    /\ ExtractIdle
    /\ InfoIdle
    /\ FetchIdle
    /\ ToolIdle
    /\ ObjectsIdle
    /\ epc = [t \in Tasks |-> LoopTask("idle", "nothing", "nothing")]
    /\ elog = <<>>

NextLoop ==
    \E t \in Tasks :
        \/ LoopToolStart(t)
        \/ LoopResponse(t)
        \/ LoopContentResume(t)
        \/ LoopPandocExit(t)

SpecLoop == InitLoop /\ [][NextLoop]_vars




----------------------------------------------------------------------------
(* Properties of the memoized catalog, under Spec *)

Starts == {i \in 1..Len(trace) : trace[i].ev \in {"hit", "miss"}}

Returns == {i \in 1..Len(trace) : trace[i].ev \in {"ok", "hit"}}

Failures == {i \in 1..Len(trace) : trace[i].ev = "raise"}

\* the GET counter and the memoized catalog before event i
GetsBefore(i) == IF i = 1 THEN 0 ELSE trace[i - 1].gets

CacheBefore(i) == IF i = 1 THEN None ELSE trace[i - 1].cache

\* the last fetch that returned before event j
LastFetched(j) ==
    LET oks == {k \in 1..(j - 1) : trace[k].ev = "ok"} IN
    IF oks = {} THEN None ELSE trace[CHOOSE k \in oks : \A m \in oks : m <= k].val

\* C1: once a get_available_docs call has returned a catalog, every call that
\* starts later returns at once the catalog memoized by the last fetch and
\* issues no GET, and the number of catalog GETs never changes again; so two
\* sequential calls issue exactly one GET.
C1_MemoizedAfterSuccess ==
    \A i \in Returns :
        /\ \A j \in Starts :
            i < j => /\ trace[j].ev = "hit"
                     /\ trace[j].val # None
                     /\ trace[j].val = LastFetched(j)
                     /\ trace[j].gets = GetsBefore(j)
        /\ \A j \in 1..Len(trace) : i < j => trace[j].gets = trace[i].gets
        /\ catalogGets = trace[i].gets

\* one task calls twice in sequence: the first call fetches, the second is
\* served from the memoized catalog, and one GET was issued in all
C1_Witness ==
    /\ Len(trace) = 3
    /\ trace[1].ev = "miss" /\ trace[2].ev = "ok" /\ trace[3].ev = "hit"
    /\ trace[1].task = trace[3].task
    /\ trace[3].val = trace[2].val
    /\ catalogGets = 1

\* C2: a get_available_docs call that fails (transport error, non-success
\* status, unparsable body) raises, returns nothing and leaves the memoized
\* catalog as it was, so a catalog that was unset stays unset; the next call
\* that starts while it is still unset issues a new GET.
C2_FailureNotMemoized ==
    \A k \in Failures :
        /\ trace[k].resp.kind \in {"transport", "status", "badjson"}
        /\ trace[k].val = None
        /\ trace[k].cache = CacheBefore(k)
        /\ trace[k].gets = GetsBefore(k)
        /\ \A j \in Starts :
            (k < j /\ \A m \in k..j : trace[m].cache = None)
                => trace[j].ev = "miss" /\ trace[j].gets = GetsBefore(j) + 1

\* a call fails on an unparsable body and the same task's next call fetches again
C2_Witness ==
    /\ Len(trace) = 3
    /\ trace[1].ev = "miss" /\ trace[2].ev = "raise" /\ trace[3].ev = "miss"
    /\ trace[2].resp.kind = "badjson"
    /\ trace[1].task = trace[3].task
    /\ docs_cache = None
    /\ catalogGets = 2

\* the bodies that a GET of the catalog delivered whole
FetchedWhole ==
    {trace[k].resp.body : k \in {m \in 1..Len(trace) : trace[m].resp.kind = "ok"}}

\* C3: under every interleaving of get_available_docs calls the memoized
\* catalog is either unset or a whole catalog that one successful GET
\* delivered, and so was it after every event.
C3_CacheNeverPartial ==
    /\ docs_cache = None \/ (docs_cache[1] \in FetchedWhole /\ docs_cache[1] \in Catalogs)
    /\ \A i \in 1..Len(trace) :
        trace[i].cache = None
        \/ \E k \in 1..i : trace[k].resp.kind = "ok" /\ trace[i].cache = Some(trace[k].resp.body)

\* two first calls race: both issue a GET, one delivers a catalog and the
\* other a body cut short, and the catalog of the first stays memoized
C3_Witness ==
    /\ Len(trace) = 4
    /\ trace[1].ev = "miss" /\ trace[2].ev = "miss"
    /\ trace[1].task # trace[2].task
    /\ trace[3].resp.kind = "ok" /\ trace[3].resp.body # <<>>
    /\ trace[4].resp.kind = "badjson"
    /\ docs_cache = Some(trace[3].resp.body)

----------------------------------------------------------------------------
(* Properties of the ranked search, under SpecSearch.  The notions the       *)
(* statements use are defined here on their own, apart from the operators   *)
(* that compute the search.                                                  *)

Searched == searches # None /\ searches[1].kind = "ok"

\* the query, the returned sequence and the fetched entries of the last call
Q == searches[1].query

R == searches[1].result

E == IndexEntries(index)

\* the name of an entry, an entry without one counting as ""
NameOf(e) == IF e.name = <<>> THEN <<>> ELSE e.name[1]

\* a string with its capital letters A..Z replaced by the small ones
Folded(s) == [i \in 1..Len(s) |-> IF s[i] >= 65 /\ s[i] <= 90 THEN s[i] + 32 ELSE s[i]]

IsSubstring(n, h) ==
    \E i \in 1..(Len(h) + 1) :
        /\ i + Len(n) - 1 <= Len(h)
        /\ \A k \in 1..Len(n) : h[i + k - 1] = n[k]

IsPrefix(n, h) == Len(n) <= Len(h) /\ \A k \in 1..Len(n) : h[k] = n[k]

\* lexicographic order: after the longest common prefix, a ends or has the
\* smaller code point
LexLess(a, b) ==
    LET common == {m \in 0..Len(a) : m <= Len(b) /\ \A k \in 1..m : a[k] = b[k]}
        m == CHOOSE x \in common : \A y \in common : y <= x
    IN IF m = Len(a) THEN m < Len(b)
       ELSE m < Len(b) /\ a[m + 1] < b[m + 1]

IsMatch(e, q) == IsSubstring(Folded(q), Folded(NameOf(e)))

\* 0 exact, 1 prefix, 2 any other match
Tier(e, q) ==
    IF Folded(NameOf(e)) = Folded(q) THEN 0
    ELSE IF IsPrefix(Folded(q), Folded(NameOf(e))) THEN 1 ELSE 2

\* e ranks strictly before f
RanksBefore(e, f, q) ==
    \/ Tier(e, q) < Tier(f, q)
    \/ Tier(e, q) = Tier(f, q) /\ LexLess(Folded(NameOf(e)), Folded(NameOf(f)))

Count(s, e) == Cardinality({i \in 1..Len(s) : s[i] = e})

NumMatches(q) == Cardinality({i \in 1..Len(E) : IsMatch(E[i], q)})

\* C4: search_doc_entries returns only entries of the fetched Index whose
\* folded name contains the folded query, each as it is in the Index and no
\* more often than it occurs there; when at most 20 entries match it returns
\* every one of them, and the empty query matches every entry.
C4_FilterBySubstring ==
    Searched =>
        /\ \A i \in 1..Len(R) :
            /\ R[i] \in Range(E)
            /\ IsMatch(R[i], Q)
            /\ Count(R, R[i]) <= Count(E, R[i])
        /\ NumMatches(Q) <= MaxResults =>
            /\ Len(R) = NumMatches(Q)
            /\ \A i \in 1..Len(E) : IsMatch(E[i], Q) => Count(R, E[i]) = Count(E, E[i])
        /\ Q = <<>> => NumMatches(Q) = Len(E)

\* an upper-case query is found in exactly 20 names written in other cases,
\* all of which are returned, and not in the name "b", which is left out
C4_Witness ==
    /\ Searched
    /\ Q = Str_A
    /\ Len(E) = MaxResults + 1
    /\ NumMatches(Q) = MaxResults
    /\ Len(R) = MaxResults
    /\ \E i \in 1..Len(E) : NameOf(E[i]) = Str_b /\ E[i] \notin Range(R)
    /\ \E i \in 1..Len(R) : NameOf(R[i]) = Str_ba

\* C5: in the returned sequence exact matches precede prefix matches, which
\* precede the other matches, and within a tier the folded names ascend
\* lexicographically.
C5_RankedByTierThenName ==
    Searched =>
        \A i, j \in 1..Len(R) :
            i < j =>
                /\ Tier(R[i], Q) <= Tier(R[j], Q)
                /\ Tier(R[i], Q) = Tier(R[j], Q)
                     => ~LexLess(Folded(NameOf(R[j])), Folded(NameOf(R[i])))

\* the three tiers in one result, listed in the Index in the opposite order
C5_Witness ==
    /\ Searched
    /\ Q = Str_a
    /\ Len(R) >= 3
    /\ Tier(R[1], Q) = 0 /\ Tier(R[2], Q) = 1 /\ Tier(R[3], Q) = 2
    /\ R[1] = E[Len(E)] /\ R[2] = E[Len(E) - 1] /\ R[3] = E[1]

\* C6: search_doc_entries never returns more than 20 entries, and when more
\* than 20 match it returns 20 of them in rank order such that no match left
\* out ranks before one that is returned: the cut comes after the ranking.
C6_TruncatedAfterSorting ==
    Searched =>
        /\ Len(R) <= MaxResults
        /\ NumMatches(Q) > MaxResults =>
            /\ Len(R) = MaxResults
            /\ \A i \in 1..Len(E) :
                (IsMatch(E[i], Q) /\ Count(R, E[i]) < Count(E, E[i]))
                    => \A k \in 1..Len(R) : ~RanksBefore(E[i], R[k], Q)

\* more than 20 entries match and the best of them is listed after the 20th
\* place of the Index
C6_Witness ==
    /\ Searched
    /\ NumMatches(Q) > MaxResults
    /\ Len(R) = MaxResults
    /\ Len(E) > MaxResults
    /\ R[1] = E[Len(E)]
    /\ Tier(R[1], Q) = 0
    /\ Tier(R[2], Q) > 0

\* two strings that differ in the case of their letters only
CaseVariants(a, b) ==
    /\ Len(a) = Len(b)
    /\ \A k \in 1..Len(a) :
        \/ a[k] = b[k]
        \/ a[k] \in 65..90 /\ b[k] = a[k] + 32
        \/ b[k] \in 65..90 /\ a[k] = b[k] + 32

\* C7: against one Index, a call whose query differs from the query of the
\* call before it only in letter case returns the same sequence.
C7_CaseInsensitive ==
    [][(/\ Searched
        /\ searches' # None
        /\ searches'[1].kind = "ok"
        /\ index' = index
        /\ CaseVariants(Q, searches'[1].query))
            => searches'[1].result = R]_vars

\* a query with a capital letter has found entries named in small letters
C7_Witness ==
    /\ Searched
    /\ Q = Str_aB
    /\ Len(R) = 2
    /\ NameOf(R[1]) = Str_ab
    /\ R[2] = R[1]

\* the places of the Index that hold e or f, as a sequence of entries
RECURSIVE Restrict(_, _)
Restrict(s, S) ==
    IF s = <<>> THEN <<>>
    ELSE LET rest == Restrict(SubSeq(s, 1, Len(s) - 1), S) IN
         IF s[Len(s)] \in S THEN Append(rest, s[Len(s)]) ELSE rest

\* C8: the ranking is stable: entries of the same tier and the same folded
\* name are returned in the order the Index lists them.
C8_StableRanking ==
    Searched =>
        \A i, j \in 1..Len(R) :
            (/\ i < j
             /\ R[i] # R[j]
             /\ Tier(R[i], Q) = Tier(R[j], Q)
             /\ Folded(NameOf(R[i])) = Folded(NameOf(R[j])))
                => LET both == Restrict(E, {R[i], R[j]})
                       got == Restrict(R, {R[i], R[j]})
                   IN Len(got) <= Len(both) /\ SubSeq(both, 1, Len(got)) = got

\* "A" is listed before "a": both are exact matches of "a" and keep that order
C8_Witness ==
    /\ Searched
    /\ Q = Str_a
    /\ Len(R) = 2
    /\ NameOf(R[1]) = Str_A /\ NameOf(R[2]) = Str_a
    /\ R = E

----------------------------------------------------------------------------
(* Properties of the page listing, under SpecPages *)

\* the index GET of the call has delivered the Index
IndexFetched == Len(netlog) >= 1 /\ netlog[1].kind = "index" /\ netlog[1].outcome = "ok"

\* the content GETs that have resolved, and those among them that failed or
\* whose page info could not be derived
ResolvedContent ==
    {k \in 1..Len(netlog) : netlog[k].kind = "content" /\ netlog[k].outcome # "pending"}

FailedContent == {k \in ResolvedContent : netlog[k].outcome # "ok"}

Returned == lpc = "done" /\ listResult # None /\ listResult[1].kind = "ok"

\* C9: once the Index is fetched the call cannot fail: it returns one Page per
\* Index entry, in Index order, whichever content fetches or page-info
\* derivations fail; the Page of an entry whose content failed carries an
\* error, the entries after it are still processed, and an Index without
\* entries gives the empty sequence.
C9_OnePagePerEntry ==
    IndexFetched =>
        /\ Len(pages) <= Len(E)
        /\ \A i \in 1..Len(pages) :
            /\ pages[i].name = NameOf(E[i])
            /\ pages[i].path = (IF E[i].path = <<>> THEN <<>> ELSE E[i].path[1])
            /\ pages[i].type = E[i].type
        /\ \A k \in FailedContent :
            netlog[k].entry <= Len(pages) /\ pages[netlog[k].entry].error # <<>>
        /\ lpc = "done" =>
            /\ Returned
            /\ listResult[1].pages = pages
            /\ Len(pages) = Len(E)

\* three entries with paths, the content of the second cannot be fetched: three
\* Pages come back, the second with an error, the first and the third derived
C9_Witness ==
    /\ Returned
    /\ Len(E) = 3
    /\ Len(listResult[1].pages) = 3
    /\ Len(netlog) = 4
    /\ netlog[2].outcome = "ok" /\ netlog[3].outcome = "status" /\ netlog[4].outcome = "ok"
    /\ listResult[1].pages[1].title # <<>> /\ listResult[1].pages[1].error = <<>>
    /\ listResult[1].pages[2].title = <<>> /\ listResult[1].pages[2].error # <<>>
    /\ listResult[1].pages[3].title # <<>> /\ listResult[1].pages[3].error = <<>>

\* C10: in every Page built or returned, an error excludes a title and
\* sections: a Page with an error has title None and no sections, and a Page
\* with a title or sections has no error.
C10_ErrorExcludesTitle ==
    \A p \in Range(pages) \cup (IF listResult = <<>> THEN {} ELSE Range(listResult[1].pages)) :
        /\ p.error # <<>> => p.title = <<>> /\ p.sections = <<>>
        /\ (p.title # <<>> \/ p.sections # <<>>) => p.error = <<>>

\* the derivation of page info raised on a fragment that holds a title and a
\* section; the Page before it has both
C10_Witness ==
    /\ Returned
    /\ Len(listResult[1].pages) = 2
    /\ listResult[1].pages[1].title # <<>> /\ listResult[1].pages[1].sections # <<>>
    /\ listResult[1].pages[1].error = <<>>
    /\ Len(netlog) = 3
    /\ netlog[3].outcome = "parse"
    /\ listResult[1].pages[2].error # <<>>
    /\ listResult[1].pages[2].title = <<>> /\ listResult[1].pages[2].sections = <<>>

\* C11: a list_all_docset_pages call with include_sections false issues one
\* request in all, the index GET, and never a content GET; every Page it
\* returns has title None, no sections and no error.
C11_NoSectionsNoFetch ==
    ~include_sections =>
        /\ \A k \in 1..Len(netlog) : netlog[k].kind = "index"
        /\ Len(netlog) = (IF lpc = "start" THEN 0 ELSE 1)
        /\ Returned =>
            /\ Len(listResult[1].pages) = Len(E)
            /\ \A p \in Range(listResult[1].pages) :
                p.title = <<>> /\ p.sections = <<>> /\ p.error = <<>>

\* three entries, two of them with a path, are listed without sections after
\* the index GET alone
C11_Witness ==
    /\ ~include_sections
    /\ Returned
    /\ Len(listResult[1].pages) = 3
    /\ listResult[1].pages[1].path # <<>> /\ listResult[1].pages[3].path # <<>>
    /\ listResult[1].pages[2].path = <<>>
    /\ Len(netlog) = 1
    /\ netlog[1].outcome = "ok"

----------------------------------------------------------------------------
(* Properties of the text extraction, under SpecExtract *)

Extracted == xresult # None

\* the outcome of the call, and what the cleaner and the subprocess did
X == xresult[1]

Cleaner == xenv[1].cleaner

Pandoc == xenv[1].pandoc

IsBlank(s) == \A i \in 1..Len(s) : s[i] \in {9, 10, 13, 32}

Ran(strategy) == \E i \in 1..Len(X.ran) : X.ran[i] = strategy

\* C12, as claimed: extract_text_content returns a string whatever the
\* cleaner and the pandoc subprocess do; none of their failures reaches the
\* caller.
C12_NeverRaises == Extracted => X.kind = "return"

\* C20: the strategies run in the order cleaner, pandoc, naive parse; pandoc is
\* started only if the cleaner is missing or returned blank output, and the
\* naive parse runs only if pandoc was started and was not found, failed or
\* wrote nothing; the output of the first strategy with output is returned
\* and no later strategy runs.
C20_StrategiesInOrder ==
    Extracted =>
        /\ X.ran \in {<<"cleaner">>, <<"cleaner", "pandoc">>, <<"cleaner", "pandoc", "naive">>}
        /\ Ran("pandoc") =>
            Cleaner.kind = "missing" \/ (Cleaner.kind = "returns" /\ IsBlank(Cleaner.out))
        /\ Ran("naive") => Pandoc.kind # "exits" \/ Pandoc.out = <<>>
        /\ (Cleaner.kind = "returns" /\ ~IsBlank(Cleaner.out)) =>
            X = [kind |-> "return", text |-> Cleaner.out, ran |-> <<"cleaner">>]
        /\ (Ran("pandoc") /\ Pandoc.kind = "exits" /\ Pandoc.out # <<>>) =>
            X = [kind |-> "return", text |-> Pandoc.out, ran |-> <<"cleaner", "pandoc">>]
        /\ Ran("naive") => X.kind = "return"

\* the cleaner returns a blank, pandoc exits without output, and the naive
\* parse gives the text of the paragraph
C20_Witness ==
    /\ Extracted
    /\ Cleaner = [kind |-> "returns", out |-> Str_blank]
    /\ Pandoc = [kind |-> "exits", out |-> <<>>]
    /\ X.ran = <<"cleaner", "pandoc", "naive">>
    /\ X.kind = "return"
    /\ X.text = Str_Hi

----------------------------------------------------------------------------
(* Properties of the page info, under SpecInfo *)

Derived == info # None

\* s without its leading and trailing blanks
Trimmed(s) ==
    LET inked == {i \in 1..Len(s) : s[i] \notin {9, 10, 13, 32}} IN
    IF inked = {} THEN <<>>
    ELSE SubSeq(s, CHOOSE i \in inked : \A j \in inked : i <= j,
                   CHOOSE i \in inked : \A j \in inked : j <= i)

\* the five title selectors, by rank: h1, title, .page-title, .doc-title, .main-title
Selects(k, elem) ==
    \/ k = 1 /\ elem.tag = Tag_h1
    \/ k = 2 /\ elem.tag = Tag_title
    \/ k = 3 /\ elem.class = <<"page-title">>
    \/ k = 4 /\ elem.class = <<"doc-title">>
    \/ k = 5 /\ elem.class = <<"main-title">>

\* the places selector k matches, those among them with text, and the first
Selected(k) == {i \in 1..Len(fragment) : Selects(k, fragment[i])}

SelectedWithText(k) == {i \in Selected(k) : ~IsBlank(fragment[i].text)}

FirstSelected(k) == CHOOSE i \in Selected(k) : \A j \in Selected(k) : i <= j

Least(S) == CHOOSE k \in S : \A m \in S : k <= m

\* C13, as claimed: the title is the trimmed text of an element matched by
\* the earliest selector that matches any element with text, and None when
\* no selector matches an element with text.
C13_EarliestSelectorWithText ==
    Derived =>
        LET good == {k \in 1..5 : SelectedWithText(k) # {}} IN
        IF good = {} THEN info[1].title = <<>>
        ELSE \E i \in SelectedWithText(Least(good)) :
                info[1].title = <<Trimmed(fragment[i].text)>>

\* C13, amended: of each selector only the first match in document order
\* counts; the title is the trimmed text of the first match of the earliest
\* selector whose first match has text, and None when there is no such
\* selector.
C13_EarliestSelectorFirstMatch ==
    Derived =>
        LET good == {k \in 1..5 : Selected(k) # {} /\ FirstSelected(k) \in SelectedWithText(k)} IN
        IF good = {} THEN info[1].title = <<>>
        ELSE info[1].title = <<Trimmed(fragment[FirstSelected(Least(good))].text)>>

\* a title element comes first and an h1 with padded text after it: the title
\* is the text of the h1, trimmed
C13_Witness ==
    /\ Derived
    /\ Len(fragment) = 2
    /\ fragment[1].tag = Tag_title /\ fragment[1].text = Str_T
    /\ fragment[2].tag = Tag_h1 /\ fragment[2].text = Str_padded
    /\ info[1].title = <<Str_a>>

\* the places of the headings h2..h6 with text, and the k-th of them
SectionPlaces ==
    {i \in 1..Len(fragment) :
        /\ \E n \in 2..6 : fragment[i].tag = <<104, 48 + n>>
        /\ ~IsBlank(fragment[i].text)}

PlaceOfSection(k) ==
    CHOOSE i \in SectionPlaces : Cardinality({j \in SectionPlaces : j <= i}) = k

----------------------------------------------------------------------------
(* Assignments of the memoized catalog, under Spec *)

\* the events that assign self._docs_cache: the fetches that returned
Assignments == {i \in 1..Len(trace) : trace[i].ev = "ok"}

\* the event at which the call that ends at event i issued its GET
IssuedAt(i) ==
    LET mine == {m \in 1..(i - 1) : trace[m].ev = "miss" /\ trace[m].task = trace[i].task}
    IN CHOOSE m \in mine : \A n \in mine : n <= m

\* no call starts while another is suspended at its GET
NoOverlap ==
    \A i \in 1..Len(trace) :
        trace[i].ev = "miss" /\ i < Len(trace) =>
            trace[i + 1].task = trace[i].task /\ trace[i + 1].ev \in {"ok", "raise"}

\* C18, as claimed: under any interleaving the memoized catalog is assigned at
\* most once.
C18_AssignedAtMostOnce == Cardinality(Assignments) <= 1

\* C18, amended: the memoized catalog is assigned only by fetches that
\* returned, and each of them was issued while the catalog was still unset, so
\* calls racing on an unset catalog may each assign it, the last one winning;
\* once set it is never unset, every call that starts after the first
\* assignment only reads it, and calls that do not overlap assign it at most
\* once.
C18_AssignedOnlyByFirstFetches ==
    /\ \A i \in 1..Len(trace) :
        /\ trace[i].cache # CacheBefore(i) => i \in Assignments
        /\ CacheBefore(i) # None => trace[i].cache # None
    /\ \A i \in Assignments :
        /\ trace[i].cache = trace[i].val /\ trace[i].val # None
        /\ CacheBefore(IssuedAt(i)) = None
        /\ \A k \in Assignments : IssuedAt(i) < k
    /\ \A i \in Assignments : \A j \in Starts :
        i < j => trace[j].ev = "hit" /\ trace[j].cache = CacheBefore(j)
    /\ NoOverlap => Cardinality(Assignments) <= 1
    /\ docs_cache = (IF trace = <<>> THEN None ELSE trace[Len(trace)].cache)

\* two calls race on the unset catalog, both fetches return, with different
\* catalogs, and the second assignment replaces the first
C18_Witness ==
    /\ Len(trace) = 4
    /\ trace[1].ev = "miss" /\ trace[2].ev = "miss"
    /\ trace[3].ev = "ok" /\ trace[4].ev = "ok"
    /\ trace[3].task # trace[4].task
    /\ trace[3].val # trace[4].val
    /\ docs_cache = trace[4].val

----------------------------------------------------------------------------
(* Properties of the uncached fetches, under SpecFetch *)

\* the GETs issued for call k
GetsOf(k) == {w \in 1..Len(wire) : wire[w].call = k}

\* the calls made so far, and the GETs issued so far, for one URL
CallsFor(fn, slug) == {k \in 1..Len(calls) : calls[k].fn = fn /\ calls[k].slug = slug}

GetsFor(endpoint, slug) ==
    {w \in 1..Len(wire) : wire[w].url.endpoint = endpoint /\ wire[w].url.slug = slug}

\* C19: every get_doc_index and every get_doc_content call has issued exactly
\* one GET, to its own URL, whether it is still awaited, has returned or has
\* raised; so k calls for one slug have issued k GETs, whatever was fetched
\* before, and a call whose fetch failed has raised without a second GET.
C19_OneGetPerCall ==
    /\ \A k \in 1..Len(calls) :
        /\ Cardinality(GetsOf(k)) = 1
        /\ \A w \in GetsOf(k) :
            /\ wire[w].url.slug = calls[k].slug
            /\ wire[w].url.path = calls[k].path
            /\ wire[w].url.endpoint =
                 (IF calls[k].fn = "get_doc_index" THEN "index.json" ELSE ".html")
        /\ calls[k].state \in {"awaiting", "returned", "raised"}
    /\ \A slug \in SlugPool :
        /\ Cardinality(GetsFor("index.json", slug)) = Cardinality(CallsFor("get_doc_index", slug))
        /\ Cardinality(GetsFor(".html", slug)) = Cardinality(CallsFor("get_doc_content", slug))
    /\ Len(wire) = Len(calls)

\* three get_doc_index calls for one slug: the first returned, the second
\* raised, the third is made after both, and three GETs went to the one URL
C19_Witness ==
    /\ Len(calls) = 3
    /\ \A k \in 1..3 : calls[k].fn = "get_doc_index" /\ calls[k].slug = Str_a
    /\ calls[1].state = "returned"
    /\ calls[2].state = "raised"
    /\ Len(wire) = 3
    /\ \A w \in 1..3 : wire[w].url = IndexUrl(Str_a)

----------------------------------------------------------------------------
(* Properties of call_tool, under SpecTool *)

Invoked == tcall # None

Ended == tresult # None

\* the invocation, its arguments and its result
T == tcall[1]

A == tcall[1].arguments

Res == tresult[1]

\* the request of the first await has resolved, with this outcome
FirstOutcome == IF netlog = <<>> THEN "none" ELSE netlog[1].outcome

UpstreamFailures == {"transport", "status", "badjson"}

ErrorHeads ==
    {"Error listing docs: ", "Error searching ", "Error getting content for ",
     "Error listing pages for "}

Lacks(arg) == Len(arg) = 0 \/ Len(arg[1]) = 0

\* C16: an invocation that lacks a required argument (search_docs without
\* slug or query, get_doc_content without slug or path, list_docset_pages
\* without slug) has returned the tool's 'required' text, and no request was
\* issued.
C16_MissingArgumentNoRequest ==
    Invoked =>
        /\ T.name = "search_docs" /\ (Lacks(A.slug) \/ Lacks(A.query))
            => /\ Ended /\ Res.kind = "return" /\ netlog = <<>>
               /\ Res.text.head = "Error: Both 'slug' and 'query' are required"
        /\ T.name = "get_doc_content" /\ (Lacks(A.slug) \/ Lacks(A.path))
            => /\ Ended /\ Res.kind = "return" /\ netlog = <<>>
               /\ Res.text.head = "Error: Both 'slug' and 'path' are required"
        /\ T.name = "list_docset_pages" /\ Lacks(A.slug)
            => /\ Ended /\ Res.kind = "return" /\ netlog = <<>>
               /\ Res.text.head = "Error: 'slug' parameter is required"

\* search_docs was invoked with a slug and no query
C16_Witness ==
    /\ Invoked /\ Ended
    /\ T.name = "search_docs"
    /\ A.slug = <<Str_a>> /\ A.query = <<>>
    /\ Res.text.head = "Error: Both 'slug' and 'query' are required"
    /\ netlog = <<>>

\* a get_doc_content invocation whose page was fetched has ended
ContentFetched == Invoked /\ Ended /\ T.name = "get_doc_content" /\ FirstOutcome = "ok"

\* C17, as claimed: with format 'raw' the result is the fetched fragment,
\* unchanged; with format 'text' or no format it is the text extracted from
\* the fragment, whenever the extraction gave one.
C17_RawReturnsFragment ==
    ContentFetched =>
        /\ A.format = <<"raw">> => Res.text.head = "" /\ Res.text.detail = xhtml
        /\ A.format \in {<<>>, <<"text">>} /\ xresult # <<>> /\ xresult[1].kind = "return"
            => Res.text.head = "" /\ Res.text.detail = xresult[1].text

\* C17, amended: with format 'html' the result is the fetched fragment,
\* unchanged, and no extraction runs; with any other format ('text', 'raw')
\* or none, extract_text_content runs on the fragment, and the result is the
\* text it returns, or the 'Error getting content' text when it raises.
C17_HtmlReturnsFragment ==
    ContentFetched =>
        /\ A.format = <<"html">>
            => Res.kind = "return" /\ Res.text.head = "" /\ Res.text.detail = xhtml
               /\ xresult = <<>>
        /\ A.format # <<"html">>
            => /\ xresult # <<>>
               /\ Res.kind = "return"
               /\ xresult[1].kind = "return"
                    => Res.text.head = "" /\ Res.text.detail = xresult[1].text
               /\ xresult[1].kind = "raise"
                    => Res.text.head = "Error getting content for "

\* with format 'raw' the paragraph "Hi" after a script and a style came back
\* as the text "Hi" of the naive extraction, not as the fragment
C17_Witness ==
    /\ ContentFetched
    /\ A.format = <<"raw">>
    /\ Len(xhtml) = 3
    /\ xresult # <<>> /\ xresult[1].kind = "return"
    /\ xresult[1].ran = <<"cleaner", "pandoc", "naive">>
    /\ Res.text.detail = Str_Hi

----------------------------------------------------------------------------
(* Properties of the fallbacks of the text extraction, under SpecExtract *)

\* C21: when the pandoc subprocess is run and cannot be started because the
\* executable is missing, or exits non-zero, or exceeds its timeout, no
\* exception leaves extract_text_content: the naive parse runs next and its
\* text is what the call returns.
C21_PandocFailureSwallowed ==
    (Extracted /\ Ran("pandoc") /\ Pandoc.kind \in {"notfound", "nonzero", "timeout"}) =>
        /\ X.kind = "return"
        /\ X.ran = <<"cleaner", "pandoc", "naive">>
        /\ X.text = NaiveText(xhtml)

\* the cleaner module is missing, pandoc exceeds its timeout, and the text of
\* the paragraph after the script and the style comes back
C21_Witness ==
    /\ Extracted
    /\ Cleaner.kind = "missing"
    /\ Pandoc.kind = "timeout"
    /\ Len(xhtml) = 3
    /\ X.kind = "return"
    /\ X.text = Str_Hi

\* the text of the script and style elements, and of the other elements
Hidden == {i \in 1..Len(xhtml) : xhtml[i].tag \in {<<115, 99, 114, 105, 112, 116>>, <<115, 116, 121, 108, 101>>}}

Shown == (1..Len(xhtml)) \ Hidden

\* the words of s: its longest runs without a blank
Words(s) ==
    {SubSeq(s, i, j) : i \in 1..Len(s), j \in 1..Len(s)} \cap
    {w \in UNION {[1..n -> Range(s)] : n \in 1..Len(s)} :
        /\ \A k \in 1..Len(w) : w[k] \notin {9, 10, 13, 32}
        /\ \E i \in 1..(Len(s) - Len(w) + 1) :
            /\ SubSeq(s, i, i + Len(w) - 1) = w
            /\ (i = 1 \/ s[i - 1] \in {9, 10, 13, 32})
            /\ (i + Len(w) > Len(s) \/ s[i + Len(w)] \in {9, 10, 13, 32})}

Occurs(w, s) == \E i \in 1..(Len(s) - Len(w) + 1) : SubSeq(s, i, i + Len(w) - 1) = w

\* every blank of s is one space between two words
SingleSpaced(s) ==
    \A i \in 1..Len(s) :
        s[i] \in {9, 10, 13, 32} =>
            /\ s[i] = 32
            /\ 1 < i /\ i < Len(s)
            /\ s[i + 1] \notin {9, 10, 13, 32}

\* C22, for the text the naive fallback returns (what the cleaner and pandoc
\* write is theirs, not this function's): it holds no word of a script or
\* style element, unless a shown element has the word too, it holds every word
\* of the other elements, and every run of whitespace in it is a single space.
C22_NaiveTextClean ==
    (Extracted /\ Ran("naive")) =>
        /\ \A i \in Hidden : \A w \in Words(xhtml[i].text) :
            (\A j \in Shown : ~Occurs(w, xhtml[j].text)) => ~Occurs(w, X.text)
        /\ \A j \in Shown : \A w \in Words(xhtml[j].text) : Occurs(w, X.text)
        /\ SingleSpaced(X.text)

----------------------------------------------------------------------------
(* Order and number of the fetches of the page listing, under SpecPages *)

ContentRequests == {k \in 1..Len(netlog) : netlog[k].kind = "content"}

InFlight == {k \in 1..Len(netlog) : netlog[k].outcome = "pending"}

\* C25: a list_all_docset_pages call has at most one request in flight, the
\* one it issued last; its content GETs go out in Index order, each after the
\* index GET delivered the Index; while the GET for an entry is in flight the
\* Pages of exactly the entries before it are built, so every earlier fetch
\* and derivation has finished, well or not, and a GET that has resolved has
\* its entry's Page built.
C25_OneFetchAtATime ==
    /\ Cardinality(InFlight) <= 1
    /\ \A k \in InFlight : k = Len(netlog)
    /\ \A k \in ContentRequests :
        /\ k > 1 /\ netlog[1].kind = "index" /\ netlog[1].outcome = "ok"
        /\ netlog[k].entry \in 1..Len(E)
        /\ \A m \in ContentRequests : m < k => netlog[m].entry < netlog[k].entry
        /\ k \in InFlight => Len(pages) = netlog[k].entry - 1
        /\ k \notin InFlight => Len(pages) >= netlog[k].entry

\* the content of the first entry could not be fetched, its Page is built
\* with the error, and the GET for the third entry, the next with a path, is
\* in flight
C25_Witness ==
    /\ Len(netlog) = 3
    /\ netlog[2].kind = "content" /\ netlog[2].entry = 1 /\ netlog[2].outcome = "status"
    /\ netlog[3].kind = "content" /\ netlog[3].entry = 3 /\ netlog[3].outcome = "pending"
    /\ Len(pages) = 2
    /\ pages[1].error # <<>>

IndexFailed ==
    Len(netlog) >= 1 /\ netlog[1].kind = "index"
    /\ netlog[1].outcome \in {"transport", "status", "badjson"}

\* C29: when the index GET of list_all_docset_pages fails, the call ends by
\* raising its one error, with no Page built or returned and no content GET
\* issued; and the call raises in no other case, a failure after the Index was
\* fetched being recorded in its Page.
C29_IndexFailureFailsAll ==
    /\ IndexFailed =>
        /\ lpc = "done"
        /\ listResult # <<>> /\ listResult[1].kind = "raise" /\ listResult[1].pages = <<>>
        /\ pages = <<>>
        /\ Len(netlog) = 1
    /\ (listResult # <<>> /\ listResult[1].kind = "raise") => IndexFailed

\* the index GET of a docset with three entries came back with a non-success
\* status
C29_Witness ==
    /\ Len(E) = 3
    /\ include_sections
    /\ Len(netlog) = 1 /\ netlog[1].outcome = "status"
    /\ listResult # <<>> /\ listResult[1].kind = "raise"

\* the entries that have a non-empty path
WithPath == {i \in 1..Len(E) : E[i].path # <<>> /\ E[i].path[1] # <<>>}

\* C30, as claimed: a content GET is issued for an entry exactly if
\* include_sections is true and the entry has a non-empty path, and the number
\* of content GETs of a call that has returned equals the number of entries
\* with a non-empty path; only such an entry's Page can carry an error, and
\* the Page of an entry without a path has title None, no sections and no
\* error.
C30_AsManyGetsAsPaths ==
    /\ \A k \in ContentRequests : include_sections /\ netlog[k].entry \in WithPath
    /\ Returned =>
        /\ Cardinality(ContentRequests) = Cardinality(WithPath)
        /\ \A i \in 1..Len(listResult[1].pages) :
            LET p == listResult[1].pages[i] IN
            /\ p.error # <<>> => i \in WithPath
            /\ i \notin WithPath => p.title = <<>> /\ p.sections = <<>> /\ p.error = <<>>

\* C30, amended: a content GET is issued for an entry exactly if
\* include_sections is true and the entry has a non-empty path: each content
\* GET is for such an entry, no entry gets two, and when the call has returned
\* with include_sections true every such entry has got one, so their number is
\* that of the entries with a path, while with include_sections false there is
\* none; only such an entry's Page can carry an error, and the Page of an
\* entry without a path has title None, no sections and no error.
C30_FetchIffSectionsAndPath ==
    /\ \A k \in ContentRequests :
        /\ include_sections /\ netlog[k].entry \in WithPath
        /\ \A m \in ContentRequests : netlog[m].entry = netlog[k].entry => m = k
    /\ Returned =>
        /\ include_sections => {netlog[k].entry : k \in ContentRequests} = WithPath
        /\ include_sections => Cardinality(ContentRequests) = Cardinality(WithPath)
        /\ ~include_sections => ContentRequests = {}
        /\ \A i \in 1..Len(listResult[1].pages) :
            LET p == listResult[1].pages[i] IN
            /\ p.error # <<>> => include_sections /\ i \in WithPath
            /\ i \notin WithPath => p.title = <<>> /\ p.sections = <<>> /\ p.error = <<>>

\* of three entries the one without a path key and the one with an empty
\* path got no GET, and the one with a path got the only content GET
C30_Witness ==
    /\ Returned
    /\ include_sections
    /\ Len(E) = 3
    /\ Cardinality(WithPath) = 1
    /\ \E i \in 1..3 : E[i].path = <<>>
    /\ \E i \in 1..3 : E[i].path = <<<<>>>>
    /\ Cardinality(ContentRequests) = 1
    /\ Len(netlog) = 2

----------------------------------------------------------------------------
(* The HTTP client of one DevDocsClient, under SpecClient *)

OpenClients == {h \in 1..Len(https) : https[h] = "open"}

Gets == {k \in 1..Len(ops) : ops[k].kind = "get"}

Closes == {k \in 1..Len(ops) : ops[k].kind = "close"}

\* C24, as claimed: the instance has at most one open HTTP client at any
\* time, and an open one is the one it holds; of two requests with no close()
\* called between them the later uses the client of the earlier; and a
\* close() that finds no open client does nothing.
C24_OneOpenClientReused ==
    /\ Cardinality(OpenClients) <= 1
    /\ \A h \in OpenClients : instances[1].client = <<h>>
    /\ \A j \in Gets : \A k \in Gets :
        (j < k /\ \A c \in Closes : c < j \/ k < c) => ops[k].http = ops[j].http
    /\ \A c \in Closes : ops[c].http = 0 => ops[c].state = "done"

----------------------------------------------------------------------------
(* call_tool invocations and their DevDocsClient objects, under SpecSessions *)

ListDocsCalls == {k \in 1..Len(ops) : ops[k].kind = "list_docs"}

\* C23, as claimed: once a call_tool invocation has returned, the HTTP client
\* made for it is closed; when every invocation has returned no HTTP client is
\* open.
C23_ClientClosedOnReturn ==
    /\ \A k \in 1..Len(ops) :
        (ops[k].state = "done" /\ ops[k].http # 0) => https[ops[k].http] = "closed"
    /\ (\A k \in 1..Len(ops) : ops[k].state = "done") =>
        \A h \in 1..Len(https) : https[h] = "closed"

\* C28: every call_tool invocation works on a DevDocsClient of its own, made
\* for it: a list_docs invocation finds no memoized catalog, whatever the
\* invocations before it have fetched, and issues the catalog GET on an HTTP
\* client of its own, so n list_docs invocations issue n catalog GETs.
C28_FreshClientPerInvocation ==
    /\ Len(instances) = Len(ops)
    /\ \A j \in 1..Len(ops) : \A k \in 1..Len(ops) :
        j # k => /\ ops[j].inst # ops[k].inst
                 /\ ops[j].http # 0 => ops[j].http # ops[k].http
    /\ \A k \in ListDocsCalls : ops[k].found = <<>> /\ ops[k].get /\ ops[k].http # 0
    /\ Cardinality({k \in ListDocsCalls : ops[k].get}) = Cardinality(ListDocsCalls)
    /\ Len(https) = Cardinality(ListDocsCalls)

\* three list_docs invocations, one after the other: the first two have each
\* memoized a catalog in their own DevDocsClient, and the third has issued the
\* third GET
C28_Witness ==
    /\ Len(ops) = 3
    /\ \A k \in 1..3 : ops[k].kind = "list_docs" /\ ops[k].get
    /\ ops[1].state = "done" /\ ops[2].state = "done" /\ ops[3].state = "awaiting"
    /\ instances[1].docs_cache # <<>> /\ instances[2].docs_cache # <<>>
    /\ instances[3].docs_cache = <<>>
    /\ Len(https) = 3

----------------------------------------------------------------------------
(* The empty query of search_docs, under SpecTool *)

\* C27: a search_docs invocation whose query is the empty string has ended
\* with a returned text that is an error or a no-matches message, the
\* 'required' error in fact, never a list of results, and no request was
\* issued for it.
C27_EmptyQueryRejected ==
    (Invoked /\ T.name = "search_docs" /\ A.query = <<<<>>>>) =>
        /\ Ended /\ Res.kind = "return"
        /\ Res.text.head # "Search results for "
        /\ Res.text.head \in {"Error: Both 'slug' and 'query' are required",
                              "Error searching ", "No matches found for "}
        /\ Res.text.head = "Error: Both 'slug' and 'query' are required"
        /\ netlog = <<>>

\* search_docs was invoked with the slug "a" and the query "" on a docset
\* that has entries
C27_Witness ==
    /\ Invoked /\ Ended
    /\ T.name = "search_docs"
    /\ A.slug = <<Str_a>> /\ A.query = <<<<>>>>
    /\ Len(E) > 0
    /\ Res.text.head = "Error: Both 'slug' and 'query' are required"
    /\ netlog = <<>>

----------------------------------------------------------------------------
(* The renderer subprocess and the event loop, under SpecLoop *)

\* task u has a step the event loop could run: its call has not started, or
\* what it awaits has arrived
Runnable(u) == epc[u].at = "idle" \/ (epc[u].at = "get" /\ epc[u].arrived # "nothing")

\* C26: while the extract_text_content of one task waits for the renderer
\* subprocess, every other task that has a step to run can run it: the wait
\* does not block the event loop.
C26_OthersProgressDuringPandoc ==
    \A t \in DOMAIN epc, u \in DOMAIN epc :
        (t # u /\ epc[t].at = "pandoc" /\ Runnable(u)) => ENABLED LoopStep(u)

====
